---- MODULE Spec2Model ----
(***************************************************************************)
(* gary4juce control center (src/launcher.py): the service supervisor      *)
(* (ServiceWorker), the adaptive health monitor (HealthChecker) and the    *)
(* control surface entry points (Gary4JUCEControlCenter), as one state     *)
(* machine with three threads of control: the GUI thread, the worker       *)
(* thread and the monitor thread.                                          *)
(***************************************************************************)
EXTENDS Integers, Sequences, FiniteSets, TLC

\* ------------------------------------------------------------------ bounds
MaxOps == 2        \* start-all / stop-all requests the control surface accepts
MaxEvents == 1     \* events: process exits, failed launches and stops, per-service
                   \* requests, rejected requests, the quit request
MaxCycles == 2     \* monitor cycles (caps detailed_check_counter)

\* ------------------------------------------------------- program constants
FreshWindow == 300            \* seconds a confirmation stays fresh
SleepAllConfirmed == 15
SleepSomeHealthy == 8
SleepNoneHealthy == 3
RedisMaxRetries == 5
DetailedEvery == 20
AccessViolation == "3221225477" \* exit codes are written in decimal: the tools' integers are 32-bit
TerminatedCode == "1"
HttpOk == 200
HttpError == 500
ConnRefused == -1             \* requests.exceptions.ConnectionError
ConnTimeout == -2             \* requests.exceptions.Timeout
NoPoll == "None"              \* Popen.poll() returning None: still running
NotLaunched == "not launched" \* a pid no Popen call has produced yet
Absent == -1                  \* no entry in services_confirmed_healthy
NoTime == -1                  \* start_time = None
NotProbed == 0                \* no protocol probe issued

\* ------------------------------------------------------------ configuration
Services == <<"gary", "melodyflow", "stable-audio">>
ServiceNames == {Services[i] : i \in 1..Len(Services)}
Redis == "redis"
Ids == ServiceNames \cup {Redis}
\* every Popen call yields a new pid: one per identifier and start-all, one per restart
Pids == 1..((Len(Services) + 1) * ((MaxOps + 1) \div 2) + MaxEvents)
CrashCodes == {AccessViolation}
ProbeOutcomes == {HttpOk, HttpError, ConnRefused, ConnTimeout}

VARIABLES
  services_running,   \* Gary4JUCEControlCenter.services_running
  processes,          \* Gary4JUCEControlCenter.processes: sequence of [name, pid], insertion order
  start_time,         \* Gary4JUCEControlCenter.start_time
  last_health_status, \* Gary4JUCEControlCenter.last_health_status
  inbox,              \* health_status signals emitted and not yet delivered to the GUI thread
  main_pc,            \* position of the GUI thread
  main_arg,           \* service the GUI thread's inline operation is about
  events,             \* environment events so far
  ops,                \* start-all / stop-all requests accepted so far
  proc,               \* OS process table: pid -> NotLaunched, NoPoll (alive) or exit code
  image,              \* pid -> identifier the process was launched for
  now,                \* wall clock, seconds
  operation,          \* ServiceWorker.operation
  wk_pc,              \* position of the worker thread ("idle": QThread not running)
  wk_i,               \* index of the service / registry entry the worker is at
  wk_len,             \* size of the registry when the stop pass began iterating it
  wk_pid,             \* the Popen object the start sequence holds (redis_process)
  redis_check,        \* outcome of the start sequence's dependency retries
  launched,           \* Popen calls per identifier in the worker's current operation
  accepted,           \* request accepted by the control surface and not yet picked up by run()
  rejected,           \* last request the control surface rejected by its early return
  hc_running,         \* HealthChecker.running (cleared by stop())
  hc_pc,              \* position of the monitor thread
  hc_i,               \* index of the service the monitor cycle is at
  hc_error,           \* the monitor left its loop through the except branch
  status,             \* the cycle's status dict
  current_time,       \* the cycle's current_time
  services_confirmed_healthy, \* HealthChecker.services_confirmed_healthy
  detailed_check_counter,     \* HealthChecker.detailed_check_counter
  sleep_time,         \* the cycle's sleep_time
  last                \* the cycle's latest examination: service, what it found, probes issued

vars == <<services_running, processes, start_time, last_health_status, inbox,
          main_pc, main_arg, events, ops, proc, image, now,
          operation, wk_pc, wk_i, wk_len, wk_pid, redis_check, launched, accepted, rejected,
          hc_running, hc_pc, hc_i, hc_error, status, current_time,
          services_confirmed_healthy, detailed_check_counter, sleep_time, last>>

mainVars == <<services_running, processes, start_time, last_health_status, inbox,
              main_pc, main_arg, events, ops>>
osVars == <<proc, image>>
wkVars == <<operation, wk_pc, wk_i, wk_len, wk_pid, redis_check, launched, accepted>>
hcVars == <<hc_running, hc_pc, hc_i, hc_error, status, current_time,
            services_confirmed_healthy, detailed_check_counter, sleep_time, last>>

\* -------------------------------------------------------- registry (a dict)
Keys(d) == {d[i].name : i \in 1..Len(d)}
Has(d, k) == k \in Keys(d)
IndexOf(d, k) == CHOOSE i \in 1..Len(d) : d[i].name = k
Get(d, k) == d[IndexOf(d, k)].pid
Put(d, k, p) ==
  IF Has(d, k) THEN [d EXCEPT ![IndexOf(d, k)].pid = p]
  ELSE Append(d, [name |-> k, pid |-> p])
Del(d, k) == SelectSeq(d, LAMBDA e : e.name # k)

\* ------------------------------------------------------------ snapshots
EmptySnapshot == [keys |-> {}, healthy |-> {}]
SetStatus(st, k, v) ==
  [keys |-> st.keys \cup {k},
   healthy |-> IF v THEN st.healthy \cup {k} ELSE st.healthy \ {k}]
StatusGet(st, k) == k \in st.healthy

\* ------------------------------------------------------------ OS processes
Poll(p) == proc[p]
IsAlive(p) == Poll(p) = NoPoll
FreshPids == {p \in Pids : proc[p] = NotLaunched}
NextPid == CHOOSE p \in FreshPids : \A q \in FreshPids : p <= q

\* ------------------------------------------------------------------ probes
CheckServiceHealth(outcome) == outcome = HttpOk
CheckServiceHealthDetailed(outcome) ==
  [success |-> outcome > 0, healthy |-> outcome = HttpOk]

\* ------------------------------------------------------------------- Init
NoRejection == [op |-> "none", flag |-> FALSE, busy |-> "none", at |-> 0]
NoExamination == [name |-> "none", seen |-> "none", liveness |-> "none",
                  protocol |-> NotProbed, confirmed_before |-> FALSE]

Init ==
  /\ services_running = FALSE
  /\ processes = <<>>
  /\ start_time = NoTime
  /\ last_health_status = EmptySnapshot
  /\ inbox = <<>>
  /\ main_pc = "idle"
  /\ main_arg = "none"
  /\ events = 0
  /\ ops = 0
  /\ proc = [p \in Pids |-> NotLaunched]
  /\ image = [p \in Pids |-> "none"]
  /\ now = 0
  /\ operation = "none"
  /\ wk_pc = "idle"
  /\ wk_i = 0
  /\ wk_len = 0
  /\ wk_pid = 0
  /\ redis_check = "none"
  /\ launched = [k \in Ids |-> 0]
  /\ accepted = "none"
  /\ rejected = NoRejection
  /\ hc_running = TRUE
  /\ hc_pc = "loop"
  /\ hc_i = 0
  /\ hc_error = FALSE
  /\ status = EmptySnapshot
  /\ current_time = 0
  /\ services_confirmed_healthy = [s \in ServiceNames |-> Absent]
  /\ detailed_check_counter = 0
  /\ sleep_time = 0
  /\ last = NoExamination

AppLive == main_pc # "exited"

\* ============================================================ HealthChecker
\* what the cycle found for `name`, the probes it issued for it, and whether
\* `name` was in services_confirmed_healthy when the cycle came to it
Examined(name, what, liveness, protocol) ==
  [name |-> name, seen |-> what, liveness |-> liveness, protocol |-> protocol,
   confirmed_before |-> services_confirmed_healthy[name] # Absent]

IsConfirmedFresh(name) ==
  /\ services_confirmed_healthy[name] # Absent
  /\ current_time - services_confirmed_healthy[name] < FreshWindow

ProtocolProbe(outcome) ==
  IF detailed_check_counter % DetailedEvery = 0
  THEN CheckServiceHealthDetailed(outcome).healthy
  ELSE CheckServiceHealth(outcome)

HcAdvance ==
  IF hc_i = Len(Services)
  THEN hc_pc' = "publish" /\ hc_i' = hc_i
  ELSE hc_pc' = "check" /\ hc_i' = hc_i + 1

\* a cycle that writes into the previous cycle's dictionary instead of a new one
HcBeginKeepsStatus ==
  /\ AppLive /\ hc_pc = "loop" /\ hc_running
  /\ detailed_check_counter < MaxCycles
  /\ \E redis_ok \in BOOLEAN : status' = SetStatus(status, Redis, redis_ok)
  /\ current_time' = now
  /\ hc_i' = 1
  /\ hc_pc' = "check"
  /\ last' = NoExamination
  /\ UNCHANGED <<hc_running, hc_error, services_confirmed_healthy,
                 detailed_check_counter, sleep_time>>
  /\ UNCHANGED <<mainVars, osVars, wkVars, now>>
  /\ UNCHANGED rejected

\* a cycle that drops every confirmation when the dependency does not answer
HcBeginRedisDownEvicts ==
  /\ AppLive /\ hc_pc = "loop" /\ hc_running
  /\ detailed_check_counter < MaxCycles
  /\ \E redis_ok \in BOOLEAN :
       /\ status' = SetStatus(EmptySnapshot, Redis, redis_ok)
       /\ services_confirmed_healthy' =
            IF redis_ok THEN services_confirmed_healthy
            ELSE [s \in ServiceNames |-> Absent]
  /\ current_time' = now
  /\ hc_i' = 1
  /\ hc_pc' = "check"
  /\ last' = NoExamination
  /\ UNCHANGED <<hc_running, hc_error, detailed_check_counter, sleep_time>>
  /\ UNCHANGED <<mainVars, osVars, wkVars, now>>
  /\ UNCHANGED rejected

\* while self.running: ... status = {}; status['redis'] = check_redis_health()
HcBegin ==
  /\ AppLive /\ hc_pc = "loop" /\ hc_running
  /\ detailed_check_counter < MaxCycles
  /\ \E redis_ok \in BOOLEAN : status' = SetStatus(EmptySnapshot, Redis, redis_ok)
  /\ current_time' = now
  /\ hc_i' = 1
  /\ hc_pc' = "check"
  /\ last' = NoExamination
  /\ UNCHANGED <<hc_running, hc_error, services_confirmed_healthy,
                 detailed_check_counter, sleep_time>>
  /\ UNCHANGED <<mainVars, osVars, wkVars, now>>
  /\ UNCHANGED rejected

\* the loop test reads a cleared flag: run() returns
HcExit ==
  /\ AppLive /\ hc_pc = "loop" /\ ~hc_running
  /\ hc_pc' = "done"
  /\ UNCHANGED <<hc_running, hc_i, hc_error, status, current_time,
                 services_confirmed_healthy, detailed_check_counter, sleep_time, last>>
  /\ UNCHANGED <<mainVars, osVars, wkVars, now>>
  /\ UNCHANGED rejected

\* if self.parent.services_running and name in self.parent.processes: ... else: ...
RegistryTest(name) == services_running /\ Has(processes, name)

\* the else branch without its del: a confirmation outlives the handle
HcNotRunningKeepsConfirmed(name) ==
  /\ status' = SetStatus(status, name, FALSE)
  /\ UNCHANGED services_confirmed_healthy
  /\ last' = Examined(name, "absent", "none", NotProbed)

\* the else branch: status[name] = False; del self.services_confirmed_healthy[name]
HcNotRunning(name) ==
  /\ status' = SetStatus(status, name, FALSE)
  /\ services_confirmed_healthy' =
       [services_confirmed_healthy EXCEPT ![name] = Absent]
  /\ last' = Examined(name, "absent", "none", NotProbed)

HcCheck ==
  /\ AppLive /\ hc_pc = "check"
  /\ LET name == Services[hc_i] IN
       IF RegistryTest(name)
       THEN /\ hc_pc' = "read"
            /\ UNCHANGED <<hc_i, status, services_confirmed_healthy, last>>
       ELSE /\ HcNotRunning(name)
            /\ HcAdvance
  /\ UNCHANGED <<hc_running, hc_error, current_time, detailed_check_counter,
                 sleep_time>>
  /\ UNCHANGED <<mainVars, osVars, wkVars, now>>
  /\ UNCHANGED rejected

\* the branch for a handle whose poll() is None
Listening(ok) == IF ok THEN "ok" ELSE "fail"

\* the alive branch publishing the protocol probe's result, the fallback's
\* port check not consulted
HcProbeAliveNoFallback(name) ==
  IF IsConfirmedFresh(name)
  THEN \E listening \in BOOLEAN :
         /\ status' = SetStatus(status, name, listening)
         /\ last' = Examined(name, "alive", Listening(listening), NotProbed)
         /\ UNCHANGED services_confirmed_healthy
  ELSE \E outcome \in ProbeOutcomes :
         IF ProtocolProbe(outcome)
         THEN /\ services_confirmed_healthy' =
                   [services_confirmed_healthy EXCEPT ![name] = current_time]
              /\ status' = SetStatus(status, name, TRUE)
              /\ last' = Examined(name, "alive", "none", outcome)
         ELSE /\ services_confirmed_healthy' =
                   [services_confirmed_healthy EXCEPT ![name] = Absent]
              /\ \E listening \in BOOLEAN :
                   /\ status' = SetStatus(status, name, FALSE)
                   /\ last' = Examined(name, "alive", Listening(listening), outcome)

\* the alive branch recording a confirmation whenever it publishes healthy, the
\* fallback's port check included
HcProbeAliveConfirmsFallback(name) ==
  IF IsConfirmedFresh(name)
  THEN \E listening \in BOOLEAN :
         /\ status' = SetStatus(status, name, listening)
         /\ last' = Examined(name, "alive", Listening(listening), NotProbed)
         /\ UNCHANGED services_confirmed_healthy
  ELSE \E outcome \in ProbeOutcomes :
         IF ProtocolProbe(outcome)
         THEN /\ services_confirmed_healthy' =
                   [services_confirmed_healthy EXCEPT ![name] = current_time]
              /\ status' = SetStatus(status, name, TRUE)
              /\ last' = Examined(name, "alive", "none", outcome)
         ELSE \E listening \in BOOLEAN :
                /\ services_confirmed_healthy' =
                     [services_confirmed_healthy EXCEPT
                        ![name] = IF listening THEN current_time ELSE Absent]
                /\ status' = SetStatus(status, name, listening)
                /\ last' = Examined(name, "alive", Listening(listening), outcome)

\* the alive branch writing a new timestamp when the port check of a confirmed
\* service succeeds
HcProbeAliveLivenessRefreshes(name) ==
  IF IsConfirmedFresh(name)
  THEN \E listening \in BOOLEAN :
         /\ status' = SetStatus(status, name, listening)
         /\ last' = Examined(name, "alive", Listening(listening), NotProbed)
         /\ services_confirmed_healthy' =
              [services_confirmed_healthy EXCEPT
                 ![name] = IF listening THEN current_time ELSE @]
  ELSE \E outcome \in ProbeOutcomes :
         IF ProtocolProbe(outcome)
         THEN /\ services_confirmed_healthy' =
                   [services_confirmed_healthy EXCEPT ![name] = current_time]
              /\ status' = SetStatus(status, name, TRUE)
              /\ last' = Examined(name, "alive", "none", outcome)
         ELSE /\ services_confirmed_healthy' =
                   [services_confirmed_healthy EXCEPT ![name] = Absent]
              /\ \E listening \in BOOLEAN :
                   /\ status' = SetStatus(status, name, listening)
                   /\ last' = Examined(name, "alive", Listening(listening), outcome)

\* the alive branch trusting a confirmation of any age
HcProbeAliveIgnoresAge(name) ==
  IF services_confirmed_healthy[name] # Absent
  THEN \E listening \in BOOLEAN :
         /\ status' = SetStatus(status, name, listening)
         /\ last' = Examined(name, "alive", Listening(listening), NotProbed)
         /\ UNCHANGED services_confirmed_healthy
  ELSE \E outcome \in ProbeOutcomes :
         IF ProtocolProbe(outcome)
         THEN /\ services_confirmed_healthy' =
                   [services_confirmed_healthy EXCEPT ![name] = current_time]
              /\ status' = SetStatus(status, name, TRUE)
              /\ last' = Examined(name, "alive", "none", outcome)
         ELSE /\ services_confirmed_healthy' =
                   [services_confirmed_healthy EXCEPT ![name] = Absent]
              /\ \E listening \in BOOLEAN :
                   /\ status' = SetStatus(status, name, listening)
                   /\ last' = Examined(name, "alive", Listening(listening), outcome)

\* the alive branch publishing a confirmed service as healthy, its port check
\* issued and not looked at
HcProbeAliveFreshAssumed(name) ==
  IF IsConfirmedFresh(name)
  THEN \E listening \in BOOLEAN :
         /\ status' = SetStatus(status, name, TRUE)
         /\ last' = Examined(name, "alive", Listening(listening), NotProbed)
         /\ UNCHANGED services_confirmed_healthy
  ELSE \E outcome \in ProbeOutcomes :
         IF ProtocolProbe(outcome)
         THEN /\ services_confirmed_healthy' =
                   [services_confirmed_healthy EXCEPT ![name] = current_time]
              /\ status' = SetStatus(status, name, TRUE)
              /\ last' = Examined(name, "alive", "none", outcome)
         ELSE /\ services_confirmed_healthy' =
                   [services_confirmed_healthy EXCEPT ![name] = Absent]
              /\ \E listening \in BOOLEAN :
                   /\ status' = SetStatus(status, name, listening)
                   /\ last' = Examined(name, "alive", Listening(listening), outcome)

\* the alive branch dropping the confirmation of a service whose port check
\* fails
HcProbeAliveFailedPortEvicts(name) ==
  IF IsConfirmedFresh(name)
  THEN \E listening \in BOOLEAN :
         /\ status' = SetStatus(status, name, listening)
         /\ last' = Examined(name, "alive", Listening(listening), NotProbed)
         /\ services_confirmed_healthy' =
              IF listening THEN services_confirmed_healthy
              ELSE [services_confirmed_healthy EXCEPT ![name] = Absent]
  ELSE \E outcome \in ProbeOutcomes :
         IF ProtocolProbe(outcome)
         THEN /\ services_confirmed_healthy' =
                   [services_confirmed_healthy EXCEPT ![name] = current_time]
              /\ status' = SetStatus(status, name, TRUE)
              /\ last' = Examined(name, "alive", "none", outcome)
         ELSE /\ services_confirmed_healthy' =
                   [services_confirmed_healthy EXCEPT ![name] = Absent]
              /\ \E listening \in BOOLEAN :
                   /\ status' = SetStatus(status, name, listening)
                   /\ last' = Examined(name, "alive", Listening(listening), outcome)

\* the branch for a handle whose poll() is None: the port check alone for a
\* service confirmed within the freshness window, else the protocol probe,
\* its bookkeeping, and on its failure the port check as the published bit
HcProbeAlive(name) ==
  IF IsConfirmedFresh(name)
  THEN \E listening \in BOOLEAN :
         /\ status' = SetStatus(status, name, listening)
         /\ last' = Examined(name, "alive", Listening(listening), NotProbed)
         /\ UNCHANGED services_confirmed_healthy
  ELSE \E outcome \in ProbeOutcomes :
         IF ProtocolProbe(outcome)
         THEN /\ services_confirmed_healthy' =
                   [services_confirmed_healthy EXCEPT ![name] = current_time]
              /\ status' = SetStatus(status, name, TRUE)
              /\ last' = Examined(name, "alive", "none", outcome)
         ELSE /\ services_confirmed_healthy' =
                   [services_confirmed_healthy EXCEPT ![name] = Absent]
              /\ \E listening \in BOOLEAN :
                   /\ status' = SetStatus(status, name, listening)
                   /\ last' = Examined(name, "alive", Listening(listening), outcome)

\* the dead branch reading the service's state off a fresh confirmation
HcProcessDiedStale(name) ==
  /\ status' = SetStatus(status, name, IsConfirmedFresh(name))
  /\ UNCHANGED services_confirmed_healthy
  /\ last' = Examined(name, "dead", "none", NotProbed)
  /\ UNCHANGED processes

\* the dead branch dropping the registry entry of the process it found dead
HcProcessDiedRemovesEntry(name) ==
  /\ status' = SetStatus(status, name, FALSE)
  /\ services_confirmed_healthy' =
       [services_confirmed_healthy EXCEPT ![name] = Absent]
  /\ last' = Examined(name, "dead", "none", NotProbed)
  /\ processes' = Del(processes, name)

\* the branch for a handle whose poll() is an exit code: the status bit, the
\* eviction and log lines; the registry entry stays
HcProcessDied(name) ==
  /\ status' = SetStatus(status, name, FALSE)
  /\ services_confirmed_healthy' =
       [services_confirmed_healthy EXCEPT ![name] = Absent]
  /\ last' = Examined(name, "dead", "none", NotProbed)
  /\ UNCHANGED processes

\* process = self.parent.processes[name]; if process and process.poll() is None: ...
\* The subscript raises KeyError when the entry went away since the membership
\* test; the except branch logs and leaves the loop.
HcRead ==
  /\ AppLive /\ hc_pc = "read"
  /\ LET name == Services[hc_i] IN
       IF ~Has(processes, name)
       THEN /\ hc_pc' = "done"
            /\ hc_error' = TRUE
            /\ UNCHANGED <<hc_i, status, services_confirmed_healthy, last, processes>>
       ELSE /\ IF IsAlive(Get(processes, name))
               THEN HcProbeAlive(name) /\ UNCHANGED processes
               ELSE HcProcessDied(name)
            /\ HcAdvance
            /\ UNCHANGED hc_error
  /\ UNCHANGED <<hc_running, current_time, detailed_check_counter, sleep_time>>
  /\ UNCHANGED <<services_running, start_time, last_health_status, inbox,
                 main_pc, main_arg, events, ops>>
  /\ UNCHANGED <<osVars, wkVars, now>>
  /\ UNCHANGED rejected

AllServicesHealthy(st) == \A s \in ServiceNames : StatusGet(st, s)
AnyServiceHealthy(st) == \E s \in ServiceNames : StatusGet(st, s)
ConfirmedCount(conf) == Cardinality({s \in ServiceNames : conf[s] # Absent})

\* the tiers chosen from the snapshot alone
SleepTimeIgnoringConfirmed(st, conf) ==
  IF AllServicesHealthy(st) THEN SleepAllConfirmed
  ELSE IF AnyServiceHealthy(st) THEN SleepSomeHealthy
  ELSE SleepNoneHealthy

\* the tiers chosen with the dependency's bit counted among the services
SleepTimeCountsRedis(st, conf) ==
  IF AllServicesHealthy(st) /\ StatusGet(st, Redis)
     /\ ConfirmedCount(conf) = Len(Services)
  THEN SleepAllConfirmed
  ELSE IF AnyServiceHealthy(st) \/ StatusGet(st, Redis) THEN SleepSomeHealthy
  ELSE SleepNoneHealthy

\* all_services_healthy and len(self.services_confirmed_healthy) == len(services)
SleepTime(st, conf) ==
  IF AllServicesHealthy(st) /\ ConfirmedCount(conf) = Len(Services)
  THEN SleepAllConfirmed
  ELSE IF AnyServiceHealthy(st) THEN SleepSomeHealthy
  ELSE SleepNoneHealthy

\* self.detailed_check_counter += 1; self.health_status.emit(status); sleep_time = ...
HcPublish ==
  /\ AppLive /\ hc_pc = "publish"
  /\ detailed_check_counter' = detailed_check_counter + 1
  /\ inbox' = Append(inbox, status)
  /\ sleep_time' = SleepTime(status, services_confirmed_healthy)
  /\ hc_pc' = "sleep"
  /\ UNCHANGED <<hc_running, hc_i, hc_error, status, current_time,
                 services_confirmed_healthy, last>>
  /\ UNCHANGED <<services_running, processes, start_time, last_health_status,
                 main_pc, main_arg, events, ops>>
  /\ UNCHANGED <<osVars, wkVars, now>>
  /\ UNCHANGED rejected

\* the sleep running its full interval whatever the flag says
HcSleepUninterruptible ==
  /\ AppLive /\ hc_pc = "sleep"
  /\ now' = now + sleep_time
  /\ hc_pc' = "loop"
  /\ UNCHANGED <<hc_running, hc_i, hc_error, status, current_time,
                 services_confirmed_healthy, detailed_check_counter, sleep_time, last>>
  /\ UNCHANGED <<mainVars, osVars, wkVars>>
  /\ UNCHANGED rejected

\* for _ in range(sleep_time * 10): if not self.running: break; time.sleep(0.1)
HcSleep ==
  /\ AppLive /\ hc_pc = "sleep"
  /\ IF hc_running
     THEN now' = now + sleep_time
     ELSE UNCHANGED now
  /\ hc_pc' = "loop"
  /\ UNCHANGED <<hc_running, hc_i, hc_error, status, current_time,
                 services_confirmed_healthy, detailed_check_counter, sleep_time, last>>
  /\ UNCHANGED <<mainVars, osVars, wkVars>>
  /\ UNCHANGED rejected

\* ============================================================== environment
\* a launched process exits on its own
ProcessExits ==
  /\ AppLive /\ events < MaxEvents
  /\ \E p \in Pids, code \in CrashCodes :
       /\ IsAlive(p)
       /\ proc' = [proc EXCEPT ![p] = code]
  /\ events' = events + 1
  /\ UNCHANGED <<services_running, processes, start_time, last_health_status,
                 inbox, main_pc, main_arg, ops>>
  /\ UNCHANGED <<image, wkVars, hcVars, now, rejected>>

\* time.time() is the wall clock: between two reads of it by the monitor more
\* time can have gone by than the monitor slept (slow probes, a suspended
\* machine). The amounts put a confirmation written 8 s earlier one second
\* short of the freshness window, or exactly at it.
Elapses == {FreshWindow - SleepSomeHealthy - 1, FreshWindow - SleepSomeHealthy}

TimePasses ==
  /\ AppLive /\ events < MaxEvents
  /\ \E d \in Elapses : now' = now + d
  /\ events' = events + 1
  /\ UNCHANGED <<services_running, processes, start_time, last_health_status,
                 inbox, main_pc, main_arg, ops>>
  /\ UNCHANGED <<osVars, wkVars, hcVars, rejected>>

\* ======================================================== control surface
\* on_health_status_update: self.last_health_status = status
OnHealthStatusUpdate ==
  /\ main_pc = "idle" /\ inbox # <<>>
  /\ last_health_status' = Head(inbox)
  /\ inbox' = Tail(inbox)
  /\ UNCHANGED rejected
  /\ UNCHANGED <<services_running, processes, start_time, main_pc, main_arg,
                 events, ops>>
  /\ UNCHANGED <<osVars, wkVars, hcVars, now>>

\* update_status_indicators reading the snapshot before it looks at the handle
DisplayStateTrustsSnapshot(name, snapshot, port_listening) ==
  IF ~services_running THEN "stopped"
  ELSE IF StatusGet(snapshot, name) THEN "running"
  ELSE IF ~Has(processes, name) \/ ~IsAlive(Get(processes, name)) THEN "error"
  ELSE IF name = "gary"
       THEN (IF port_listening THEN "starting" ELSE "error")
  ELSE "starting"

\* update_status_indicators without the branch for gary
DisplayStateNoGaryCase(name, snapshot, port_listening) ==
  IF ~services_running THEN "stopped"
  ELSE IF ~Has(processes, name) \/ ~IsAlive(Get(processes, name)) THEN "error"
  ELSE IF StatusGet(snapshot, name) THEN "running"
  ELSE "starting"

\* update_status_indicators without the services_running test
DisplayStateNoStoppedCase(name, snapshot, port_listening) ==
  IF ~Has(processes, name) \/ ~IsAlive(Get(processes, name)) THEN "error"
  ELSE IF name = "gary" /\ ~StatusGet(snapshot, name)
       THEN (IF port_listening THEN "starting" ELSE "error")
  ELSE IF StatusGet(snapshot, name) THEN "running"
  ELSE "starting"

\* update_status_indicators: the state shown for one service
DisplayState(name, snapshot, port_listening) ==
  IF ~services_running THEN "stopped"
  ELSE IF ~Has(processes, name) \/ ~IsAlive(Get(processes, name)) THEN "error"
  ELSE IF name = "gary" /\ ~StatusGet(snapshot, name)
       THEN (IF port_listening THEN "starting" ELSE "error")
  ELSE IF StatusGet(snapshot, name) THEN "running"
  ELSE "starting"

\* get_system_status with Redis not excluded from the dead-process count
DeadProcessesCountsRedis ==
  {k \in Keys(processes) : ~IsAlive(Get(processes, k))}

\* get_system_status: the registered handles, Redis excluded, whose poll() is an exit code
DeadProcesses ==
  {k \in Keys(processes) : k # Redis /\ ~IsAlive(Get(processes, k))}

\* healthy_count taken over every configured service, its handle not looked at
HealthyCountIgnoringHandles(snapshot, ports) ==
  Cardinality({s \in ServiceNames : StatusGet(snapshot, s) \/ s \in ports})

\* healthy_count: the services with a live handle that the snapshot marks
\* healthy or whose port (a member of `ports`) is listening
HealthyCount(snapshot, ports) ==
  Cardinality({s \in ServiceNames :
                 /\ Has(processes, s) /\ IsAlive(Get(processes, s))
                 /\ StatusGet(snapshot, s) \/ s \in ports})

\* redis_healthy: the snapshot's bit, else check_port_listening(6379)
RedisHealthy(snapshot, redis_port) == StatusGet(snapshot, Redis) \/ redis_port

\* get_system_status
GetSystemStatus(snapshot, ports, redis_port) ==
  IF ~services_running THEN "stopped"
  ELSE IF Cardinality(DeadProcesses) > 0 THEN "error"
  ELSE IF HealthyCount(snapshot, ports) = Len(Services)
          /\ RedisHealthy(snapshot, redis_port) THEN "running"
  ELSE IF HealthyCount(snapshot, ports) > 0
          \/ RedisHealthy(snapshot, redis_port) THEN "starting"
  ELSE "error"

\* ============================================================ ServiceWorker
WorkerIsRunning == wk_pc # "idle"              \* QThread.isRunning()

\* QThread.start() does nothing when the thread is already running
QThreadStart == wk_pc' = IF wk_pc = "idle" THEN "begin" ELSE wk_pc

\* an environment failure is an event of the budget
Budget(ok) ==
  /\ ok \/ events < MaxEvents
  /\ events' = IF ok THEN events ELSE events + 1

\* subprocess.Popen succeeded: a new OS process, registered under `name`
Launch(name) ==
  /\ FreshPids # {}
  /\ proc' = [proc EXCEPT ![NextPid] = NoPoll]
  /\ image' = [image EXCEPT ![NextPid] = name]
  /\ processes' = Put(processes, name, NextPid)

\* for attempt in range(max_retries): if check_redis_health(): break ...
RedisRetry(results) ==
  IF \E attempt \in 1..RedisMaxRetries : results[attempt]
  THEN "responding" ELSE "not_responding"

\* the results of the attempts made when attempt `first` is the first to succeed
\* (0: none does); the loop breaks there, the rest is padding
RetryResults(first) == [attempt \in 1..RedisMaxRetries |-> attempt = first]

\* where the start sequence goes once the retries are over: the loop only logs
\* "Redis started but not responding" and the service launches follow either way
AfterRedisRetry(outcome) == "svc_launch"

\* run(): dispatch on self.operation, then the guard and first lines of the operation
WkRun ==
  /\ AppLive /\ wk_pc = "begin"
  /\ accepted' = "none"
  /\ launched' = [k \in Ids |-> 0]
  /\ redis_check' = "none"
  /\ IF operation = "start"
     THEN IF services_running
          THEN /\ wk_pc' = "idle"
               /\ UNCHANGED <<services_running, start_time, wk_i, wk_len>>
          ELSE /\ services_running' = TRUE
               /\ start_time' = now
               /\ wk_pc' = "redis_launch"
               /\ UNCHANGED <<wk_i, wk_len>>
     ELSE IF ~services_running
          THEN /\ wk_pc' = "idle"
               /\ UNCHANGED <<services_running, start_time, wk_i, wk_len>>
          ELSE /\ wk_pc' = "stop_iter"
               /\ wk_i' = 1
               /\ wk_len' = Len(processes)
               /\ UNCHANGED <<services_running, start_time>>
  /\ UNCHANGED <<processes, last_health_status, inbox, main_pc, main_arg,
                 events, ops, operation, wk_pid>>
  /\ UNCHANGED <<osVars, hcVars, now, rejected>>

\* redis_exe.exists(); Popen(redis_cmd); self.parent.processes["redis"] = redis_process
WkRedisLaunch ==
  /\ AppLive /\ wk_pc = "redis_launch"
  /\ \E ok \in BOOLEAN :
       /\ Budget(ok)
       /\ IF ok
          THEN /\ Launch(Redis)
               /\ wk_pid' = NextPid
               /\ launched' = [launched EXCEPT ![Redis] = @ + 1]
               /\ wk_pc' = "redis_verify"
          ELSE /\ wk_pc' = "idle"
               /\ UNCHANGED <<proc, image, processes, launched, wk_pid>>
  /\ UNCHANGED <<services_running, start_time, last_health_status, inbox,
                 main_pc, main_arg, ops>>
  /\ UNCHANGED <<operation, wk_i, wk_len, redis_check, accepted, hcVars, now,
                 rejected>>

\* the start sequence going on to the services after a dependency that exited
\* within its settle delay
WkRedisVerifyIgnoresExit ==
  /\ AppLive /\ wk_pc = "redis_verify"
  /\ IF ~IsAlive(wk_pid)
     THEN /\ wk_pc' = "svc_launch"
          /\ wk_i' = 1
          /\ UNCHANGED redis_check
     ELSE \E first \in 0..RedisMaxRetries :
            /\ redis_check' = RedisRetry(RetryResults(first))
            /\ wk_pc' = AfterRedisRetry(RedisRetry(RetryResults(first)))
            /\ wk_i' = 1
  /\ UNCHANGED <<mainVars, osVars, hcVars, now, rejected>>
  /\ UNCHANGED <<operation, wk_len, wk_pid, launched, accepted>>

\* time.sleep(3); redis_process.poll(); the bounded retries of check_redis_health()
WkRedisVerify ==
  /\ AppLive /\ wk_pc = "redis_verify"
  /\ IF ~IsAlive(wk_pid)
     THEN /\ wk_pc' = "idle"
          /\ UNCHANGED <<wk_i, redis_check>>
     ELSE \E first \in 0..RedisMaxRetries :
            /\ redis_check' = RedisRetry(RetryResults(first))
            /\ wk_pc' = AfterRedisRetry(RedisRetry(RetryResults(first)))
            /\ wk_i' = 1
  /\ UNCHANGED <<mainVars, osVars, hcVars, now, rejected>>
  /\ UNCHANGED <<operation, wk_len, wk_pid, launched, accepted>>

WkNextService ==
  IF wk_i = Len(Services)
  THEN wk_pc' = "finish" /\ wk_i' = wk_i
  ELSE wk_pc' = "svc_launch" /\ wk_i' = wk_i + 1

\* the service loop giving up at the first service it cannot launch
WkSvcLaunchAbortsOnFailure ==
  /\ AppLive /\ wk_pc = "svc_launch"
  /\ \E ok \in BOOLEAN :
       /\ Budget(ok)
       /\ IF ok
          THEN /\ Launch(Services[wk_i])
               /\ launched' = [launched EXCEPT ![Services[wk_i]] = @ + 1]
               /\ WkNextService
          ELSE /\ UNCHANGED <<proc, image, processes, launched, wk_i>>
               /\ wk_pc' = "idle"
  /\ UNCHANGED <<services_running, start_time, last_health_status, inbox,
                 main_pc, main_arg, ops>>
  /\ UNCHANGED <<operation, wk_len, wk_pid, redis_check, accepted, hcVars, now,
                 rejected>>

\* one round of `for name, config in self.parent.services.items()`: the file
\* checks, Popen and the registration. The settle sleep and the poll() after it
\* only write log lines.
WkSvcLaunch ==
  /\ AppLive /\ wk_pc = "svc_launch"
  /\ \E ok \in BOOLEAN :
       /\ Budget(ok)
       /\ IF ok
          THEN /\ Launch(Services[wk_i])
               /\ launched' = [launched EXCEPT ![Services[wk_i]] = @ + 1]
          ELSE UNCHANGED <<proc, image, processes, launched>>
  /\ WkNextService
  /\ UNCHANGED <<services_running, start_time, last_health_status, inbox,
                 main_pc, main_arg, ops>>
  /\ UNCHANGED <<operation, wk_len, wk_pid, redis_check, accepted, hcVars, now,
                 rejected>>

\* the closing log lines; self.services_started.emit(); run() returns
WkFinish ==
  /\ AppLive /\ wk_pc = "finish"
  /\ wk_pc' = "idle"
  /\ UNCHANGED <<mainVars, osVars, hcVars, now, rejected>>
  /\ UNCHANGED <<operation, wk_i, wk_len, wk_pid, redis_check, launched, accepted>>

\* terminate(); wait(timeout=5); on TimeoutExpired kill(); wait(timeout=2)
StopOutcomes == {"terminated", "killed", "kill_timeout", "terminate_error"}
StopLeavesDead(outcome) == outcome \in {"terminated", "killed"}
AfterStop(p, outcome) ==
  IF IsAlive(p) /\ StopLeavesDead(outcome)
  THEN [proc EXCEPT ![p] = TerminatedCode] ELSE proc

\* one round of `for name, process in self.parent.processes.items()`; the dict
\* iterator raises RuntimeError when the dict changed size, which ends run()
WkStopIter ==
  /\ AppLive /\ wk_pc = "stop_iter"
  /\ IF Len(processes) # wk_len
     THEN /\ wk_pc' = "idle"
          /\ UNCHANGED <<proc, wk_i, events>>
     ELSE IF wk_i > wk_len
     THEN /\ wk_pc' = "taskkill"
          /\ UNCHANGED <<proc, wk_i, events>>
     ELSE /\ \E outcome \in StopOutcomes :
               /\ Budget(StopLeavesDead(outcome) \/ ~IsAlive(processes[wk_i].pid))
               /\ proc' = AfterStop(processes[wk_i].pid, outcome)
          /\ wk_i' = wk_i + 1
          /\ UNCHANGED wk_pc
  /\ UNCHANGED <<services_running, processes, start_time, last_health_status,
                 inbox, main_pc, main_arg, ops>>
  /\ UNCHANGED <<image, hcVars, now, rejected>>
  /\ UNCHANGED <<operation, wk_len, wk_pid, redis_check, launched, accepted>>

\* taskkill /F /IM redis-server.exe
TaskkillRedis(table, ok) ==
  [p \in Pids |-> IF ok /\ image[p] = Redis /\ table[p] = NoPoll
                  THEN TerminatedCode ELSE table[p]]

WkTaskkill ==
  /\ AppLive /\ wk_pc = "taskkill"
  /\ \E ok \in BOOLEAN :
       /\ Budget(ok)
       /\ proc' = TaskkillRedis(proc, ok)
  /\ wk_pc' = "clear"
  /\ UNCHANGED <<services_running, processes, start_time, last_health_status,
                 inbox, main_pc, main_arg, ops>>
  /\ UNCHANGED <<image, hcVars, now, rejected>>
  /\ UNCHANGED <<operation, wk_i, wk_len, wk_pid, redis_check, launched, accepted>>

\* the clear of the registry taking the monitor's confirmations with it
WkClearResetsConfirmed ==
  /\ AppLive /\ wk_pc = "clear"
  /\ processes' = <<>>
  /\ services_confirmed_healthy' = [s \in ServiceNames |-> Absent]
  /\ wk_pc' = "flag"
  /\ UNCHANGED <<services_running, start_time, last_health_status, inbox,
                 main_pc, main_arg, events, ops>>
  /\ UNCHANGED <<osVars, now, rejected>>
  /\ UNCHANGED <<hc_running, hc_pc, hc_i, hc_error, status, current_time,
                 detailed_check_counter, sleep_time, last>>
  /\ UNCHANGED <<operation, wk_i, wk_len, wk_pid, redis_check, launched, accepted>>

\* self.parent.processes.clear()
WkClear ==
  /\ AppLive /\ wk_pc = "clear"
  /\ processes' = <<>>
  /\ wk_pc' = "flag"
  /\ UNCHANGED <<services_running, start_time, last_health_status, inbox,
                 main_pc, main_arg, events, ops>>
  /\ UNCHANGED <<osVars, hcVars, now, rejected>>
  /\ UNCHANGED <<operation, wk_i, wk_len, wk_pid, redis_check, launched, accepted>>

\* self.parent.services_running = False
WkFlag ==
  /\ AppLive /\ wk_pc = "flag"
  /\ services_running' = FALSE
  /\ wk_pc' = "stop_end"
  /\ UNCHANGED <<processes, start_time, last_health_status, inbox,
                 main_pc, main_arg, events, ops>>
  /\ UNCHANGED <<osVars, hcVars, now, rejected>>
  /\ UNCHANGED <<operation, wk_i, wk_len, wk_pid, redis_check, launched, accepted>>

\* self.parent.start_time = None; self.services_stopped.emit(); run() returns
WkStopEnd ==
  /\ AppLive /\ wk_pc = "stop_end"
  /\ start_time' = NoTime
  /\ wk_pc' = "idle"
  /\ UNCHANGED <<services_running, processes, last_health_status, inbox,
                 main_pc, main_arg, events, ops>>
  /\ UNCHANGED <<osVars, hcVars, now, rejected>>
  /\ UNCHANGED <<operation, wk_i, wk_len, wk_pid, redis_check, launched, accepted>>

\* ================================================= control surface requests
\* start_services with the isRunning() test left out of its early return
StartAllowedNoBusyTest == ~services_running
\* start_services: if self.services_running or self.service_worker.isRunning(): return
StartAllowed == ~(services_running \/ WorkerIsRunning)

\* stop_services with the isRunning() test left out of its early return
StopAllowedNoBusyTest == services_running
\* stop_services with the services_running test left out of its early return
StopAllowedNoFlagTest == ~WorkerIsRunning
\* stop_services: if not self.services_running or self.service_worker.isRunning(): return
StopAllowed == ~(~services_running \/ WorkerIsRunning)

\* everything a rejected request leaves alone
Program == <<services_running, processes, start_time, last_health_status, inbox,
             main_pc, main_arg, ops, osVars, wkVars, hcVars, now>>

InFlight == IF WorkerIsRunning THEN operation ELSE "none"
\* the rejected request: its kind, the flag and the worker operation in flight
\* when it arrived, and its place among the events
Rejection(op) ==
  [op |-> op, flag |-> services_running, busy |-> InFlight, at |-> events + 1]

\* ServiceWorker.start_services / stop_services: self.operation = op; self.start()
Queue(op) ==
  /\ operation' = op
  /\ QThreadStart
  /\ accepted' = op

StartServices ==
  /\ main_pc = "idle"
  /\ IF StartAllowed
     THEN /\ ops < MaxOps
          /\ ops' = ops + 1
          /\ Queue("start")
          /\ UNCHANGED <<services_running, processes, start_time,
                         last_health_status, inbox, main_pc, main_arg, events>>
          /\ UNCHANGED <<osVars, hcVars, now, wk_i, wk_len, wk_pid, redis_check,
                         launched, rejected>>
     ELSE /\ events < MaxEvents
          /\ events' = events + 1
          /\ rejected' = Rejection("start")
          /\ UNCHANGED Program

StopServices ==
  /\ main_pc = "idle"
  /\ IF StopAllowed
     THEN /\ ops < MaxOps
          /\ ops' = ops + 1
          /\ Queue("stop")
          /\ UNCHANGED <<services_running, processes, start_time,
                         last_health_status, inbox, main_pc, main_arg, events>>
          /\ UNCHANGED <<osVars, hcVars, now, wk_i, wk_len, wk_pid, redis_check,
                         launched, rejected>>
     ELSE /\ events < MaxEvents
          /\ events' = events + 1
          /\ rejected' = Rejection("stop")
          /\ UNCHANGED Program

\* stop_service(service_name): TimeoutExpired out of the wait after kill() is
\* raised inside the except clause and leaves the handler before the del
StopService(name) ==
  /\ main_pc = "idle" /\ events < MaxEvents
  /\ events' = events + 1
  /\ IF Has(processes, name)
     THEN \E outcome \in StopOutcomes :
            LET p == Get(processes, name) IN
              /\ proc' = AfterStop(p, outcome)
              /\ processes' = IF IsAlive(p) /\ outcome = "kill_timeout"
                              THEN processes ELSE Del(processes, name)
     ELSE UNCHANGED <<proc, processes>>
  /\ UNCHANGED <<services_running, start_time, last_health_status, inbox,
                 main_pc, main_arg, ops>>
  /\ UNCHANGED <<image, wkVars, hcVars, now, rejected>>

\* restart_service(service_name), first half: stop the registered process
RestartStop(name) ==
  /\ main_pc = "idle" /\ events < MaxEvents
  /\ events' = events + 1
  /\ IF Has(processes, name)
     THEN \E outcome \in StopOutcomes :
            LET p == Get(processes, name) IN
              /\ proc' = AfterStop(p, outcome)
              /\ IF IsAlive(p) /\ outcome = "kill_timeout"
                 THEN UNCHANGED <<main_pc, main_arg>>
                 ELSE main_pc' = "restart_launch" /\ main_arg' = name
     ELSE /\ UNCHANGED proc
          /\ main_pc' = "restart_launch" /\ main_arg' = name
  /\ UNCHANGED <<services_running, processes, start_time, last_health_status,
                 inbox, ops>>
  /\ UNCHANGED <<image, wkVars, hcVars, now, rejected>>

\* the relaunch keeping the new Popen object to itself
RestartLaunchUnregistered ==
  /\ main_pc = "restart_launch"
  /\ \E ok \in BOOLEAN :
       IF ok THEN /\ FreshPids # {}
                  /\ proc' = [proc EXCEPT ![NextPid] = NoPoll]
                  /\ image' = [image EXCEPT ![NextPid] = main_arg]
                  /\ UNCHANGED processes
       ELSE UNCHANGED <<proc, image, processes>>
  /\ main_pc' = "idle"
  /\ main_arg' = "none"
  /\ UNCHANGED <<services_running, start_time, last_health_status, inbox,
                 events, ops>>
  /\ UNCHANGED <<wkVars, hcVars, now, rejected>>

\* restart_service, second half: the file checks, Popen, self.processes[name] = process
RestartLaunch ==
  /\ main_pc = "restart_launch"
  /\ \E ok \in BOOLEAN :
       IF ok THEN Launch(main_arg)
       ELSE UNCHANGED <<proc, image, processes>>
  /\ main_pc' = "idle"
  /\ main_arg' = "none"
  /\ UNCHANGED <<services_running, start_time, last_health_status, inbox,
                 events, ops>>
  /\ UNCHANGED <<wkVars, hcVars, now, rejected>>

\* the pass of stop_services_sync over every registered handle
RECURSIVE StopAll(_, _, _)
StopAll(d, table, outcomes) ==
  IF d = <<>> THEN table
  ELSE LET p == Head(d).pid
           o == outcomes[Head(d).name]
           next == IF table[p] = NoPoll /\ StopLeavesDead(o)
                   THEN [table EXCEPT ![p] = TerminatedCode] ELSE table
       IN StopAll(Tail(d), next, outcomes)

StopFailures(d, outcomes) ==
  Cardinality({k \in Keys(d) : IsAlive(Get(d, k)) /\ ~StopLeavesDead(outcomes[k])})

\* quit_application: if self.services_running: self.stop_services_sync();
\* then self.health_checker.stop()
QuitStopSync ==
  /\ main_pc = "idle" /\ events < MaxEvents
  /\ IF services_running
     THEN /\ \E outcomes \in [Keys(processes) -> {"terminated", "kill_timeout"}] :
               /\ events + 1 + StopFailures(processes, outcomes) <= MaxEvents
               /\ events' = events + 1 + StopFailures(processes, outcomes)
               /\ proc' = TaskkillRedis(StopAll(processes, proc, outcomes), TRUE)
          /\ processes' = <<>>
          /\ services_running' = FALSE
     ELSE /\ events' = events + 1
          /\ UNCHANGED <<proc, processes, services_running>>
  /\ hc_running' = FALSE
  /\ main_pc' = "quit_wait"
  /\ UNCHANGED <<start_time, last_health_status, inbox, main_arg, ops>>
  /\ UNCHANGED <<image, wkVars, now, rejected>>
  /\ UNCHANGED <<hc_pc, hc_i, hc_error, status, current_time,
                 services_confirmed_healthy, detailed_check_counter, sleep_time, last>>

\* self.health_checker.wait(3000); if self.service_worker.isRunning():
\* self.service_worker.terminate(); QApplication.quit()
QuitExit ==
  /\ main_pc = "quit_wait"
  /\ wk_pc' = "idle"
  /\ main_pc' = "exited"
  /\ UNCHANGED <<services_running, processes, start_time, last_health_status,
                 inbox, main_arg, events, ops>>
  /\ UNCHANGED <<osVars, hcVars, now, rejected>>
  /\ UNCHANGED <<operation, wk_i, wk_len, wk_pid, redis_check, launched, accepted>>

\* ------------------------------------------------------ check_redis_health
\* redis_configs: localhost:6379, 127.0.0.1:6379, localhost:6380
RedisConfigs == 3
\* ports_to_try = [6379, 6380]
PortsToTry == 2
\* what r.ping() does: a truthy reply, a falsy one, redis.ConnectionError,
\* redis.TimeoutError, or another exception
PingOutcomes == {"pong", "falsy", "ConnectionError", "TimeoutError", "Exception"}
\* what the raw socket exchange does: a reply holding +PONG, a reply without
\* it, or an exception in connect, send or recv
SocketOutcomes == {"pong", "other", "Exception"}

\* the client loop with only the two redis exceptions handled
RECURSIVE ClientPingsNarrow(_, _)
ClientPingsNarrow(pings, i) ==
  IF i > RedisConfigs THEN [value |-> "none", pings |-> i - 1]
  ELSE IF pings[i] = "pong" THEN [value |-> "true", pings |-> i]
  ELSE IF pings[i] = "Exception" THEN [value |-> "raised", pings |-> i]
  ELSE ClientPingsNarrow(pings, i + 1)

\* for config in redis_configs: return True on a truthy ping; ConnectionError,
\* TimeoutError and every other Exception continue with the next config
RECURSIVE ClientPings(_, _)
ClientPings(pings, i) ==
  IF i > RedisConfigs THEN [value |-> "none", pings |-> i - 1]
  ELSE IF pings[i] = "pong" THEN [value |-> "true", pings |-> i]
  ELSE ClientPings(pings, i + 1)

\* for port in ports_to_try: skipped unless check_port_listening(port); the
\* exchange returns True on +PONG, goes on to the next port otherwise
RECURSIVE RawSocket(_, _, _, _)
RawSocket(listening, replies, i, n) ==
  IF i > PortsToTry THEN [value |-> "false", sockets |-> n]
  ELSE IF ~listening[i] THEN RawSocket(listening, replies, i + 1, n)
  ELSE IF replies[i] = "pong" THEN [value |-> "true", sockets |-> n + 1]
  ELSE RawSocket(listening, replies, i + 1, n + 1)

\* check_redis_health: the client pings when `import redis` works, then the
\* raw socket fallback; the result with the number of pings and of socket
\* exchanges made
check_redis_health(import_ok, pings, listening, replies) ==
  LET client == IF import_ok THEN ClientPings(pings, 1)
                ELSE [value |-> "none", pings |-> 0]
  IN IF client.value # "none"
     THEN [value |-> client.value, pings |-> client.pings, sockets |-> 0]
     ELSE LET raw == RawSocket(listening, replies, 1, 0)
          IN [value |-> raw.value, pings |-> client.pings, sockets |-> raw.sockets]

\* ------------------------------------------------- environment of a launch
\* An environment is a map from variable names to a value or Unset. The names
\* are the four the code writes and one it never does.
EnvNames == {"XFORMERS_DISABLED", "FLASH_ATTENTION_DISABLED",
             "PYTHONIOENCODING", "PYTHONLEGACYWINDOWSSTDIO", "PATH"}
Unset == "unset"
\* dict.update
EnvUpdate(env, layer) ==
  [v \in EnvNames |-> IF layer[v] # Unset THEN layer[v] ELSE env[v]]

\* service_env["XFORMERS_DISABLED"] = "1"; service_env["FLASH_ATTENTION_DISABLED"] = "1"
MelodyflowOverrides ==
  [v \in EnvNames |->
     IF v \in {"XFORMERS_DISABLED", "FLASH_ATTENTION_DISABLED"} THEN "1" ELSE Unset]
\* service_env["PYTHONIOENCODING"] = "utf-8"; service_env["PYTHONLEGACYWINDOWSSTDIO"] = "1"
EncodingOverrides ==
  [v \in EnvNames |->
     IF v = "PYTHONIOENCODING" THEN "utf-8"
     ELSE IF v = "PYTHONLEGACYWINDOWSSTDIO" THEN "1" ELSE Unset]

\* env_vars = os.environ.copy(); if env_file.exists(): env_vars.update(dotenv_values(...))
LoadEnv(inherited, file_exists, file) ==
  IF file_exists THEN EnvUpdate(inherited, file) ELSE inherited

\* the overrides written into the dict handed to Popen
WithOverrides(name, env) ==
  EnvUpdate(IF name = "melodyflow" THEN EnvUpdate(env, MelodyflowOverrides) ELSE env,
            EncodingOverrides)

\* the service loop writing each service's overrides into env_vars itself
RECURSIVE StartEnvsShared(_, _, _)
StartEnvsShared(i, env_vars, envs) ==
  IF i > Len(Services) THEN envs
  ELSE LET service_env == WithOverrides(Services[i], env_vars)
       IN StartEnvsShared(i + 1, service_env, envs @@ (Services[i] :> service_env))

\* the service loop of _start_services: service_env = env_vars.copy() for each
\* service, env_vars itself is left as loaded
RECURSIVE StartEnvs(_, _, _)
StartEnvs(i, env_vars, envs) ==
  IF i > Len(Services) THEN envs
  ELSE LET service_env == WithOverrides(Services[i], env_vars)
       IN StartEnvs(i + 1, env_vars, envs @@ (Services[i] :> service_env))

\* the environments a start-all hands to the services it launches
StartAllEnv(inherited, file_exists, file) ==
  StartEnvs(1, LoadEnv(inherited, file_exists, file), <<>>)

\* the environment restart_service hands to the service it launches
RestartEnv(name, inherited, file_exists, file) ==
  WithOverrides(name, LoadEnv(inherited, file_exists, file))

\* ------------------------------------------------------------ specifications
Next ==
  \/ HcBegin \/ HcExit \/ HcCheck \/ HcRead \/ HcPublish \/ HcSleep
  \/ ProcessExits \/ TimePasses
  \/ OnHealthStatusUpdate
  \/ WkRun \/ WkRedisLaunch \/ WkRedisVerify \/ WkSvcLaunch \/ WkFinish
  \/ WkStopIter \/ WkTaskkill \/ WkClear \/ WkFlag \/ WkStopEnd
  \/ StartServices \/ StopServices
  \/ \E name \in ServiceNames : StopService(name) \/ RestartStop(name)
  \/ RestartLaunch
  \/ QuitStopSync \/ QuitExit

Spec == Init /\ [][Next]_vars

\* the supervisor and the control surface, the monitor thread not scheduled
NextSupervisor ==
  \/ ProcessExits
  \/ WkRun \/ WkRedisLaunch \/ WkRedisVerify \/ WkSvcLaunch \/ WkFinish
  \/ WkStopIter \/ WkTaskkill \/ WkClear \/ WkFlag \/ WkStopEnd
  \/ StartServices \/ StopServices
  \/ \E name \in ServiceNames : StopService(name) \/ RestartStop(name)
  \/ RestartLaunch
  \/ QuitStopSync \/ QuitExit

SupervisorSpec == Init /\ [][NextSupervisor]_vars

\* the monitor thread beside a start-all operation, the per-service stop, process
\* exits and the quit request
MonitorStep == HcBegin \/ HcExit \/ HcCheck \/ HcRead \/ HcPublish \/ HcSleep

NextMonitor ==
  \/ MonitorStep
  \/ ProcessExits
  \/ WkRun \/ WkRedisLaunch \/ WkRedisVerify \/ WkSvcLaunch \/ WkFinish
  \/ StartServices
  \/ \E name \in ServiceNames : StopService(name)
  \/ QuitStopSync \/ QuitExit

MonitorSpec == Init /\ [][NextMonitor]_vars

\* the monitor thread, the delivery of its snapshots to the GUI thread, a
\* start-all operation and the quit request. The monitor thread is scheduled
\* as long as the application lives: its sleep and its loop test do not wait
\* forever.
NextPublish ==
  \/ MonitorStep
  \/ OnHealthStatusUpdate
  \/ WkRun \/ WkRedisLaunch \/ WkRedisVerify \/ WkSvcLaunch \/ WkFinish
  \/ StartServices
  \/ QuitStopSync \/ QuitExit

PublishSpec ==
  Init /\ [][NextPublish]_vars /\ WF_vars(HcSleep) /\ WF_vars(HcExit)

\* the monitor thread beside a start-all operation, process exits and the wall
\* clock running ahead of the monitor's sleeps; nothing clears the monitor's
\* stop flag here, so its loop test never takes the exit
NextFreshness ==
  \/ HcBegin \/ HcCheck \/ HcRead \/ HcPublish \/ HcSleep
  \/ ProcessExits \/ TimePasses
  \/ WkRun \/ WkRedisLaunch \/ WkRedisVerify \/ WkSvcLaunch \/ WkFinish
  \/ StartServices

FreshnessSpec == Init /\ [][NextFreshness]_vars

\* one monitor cycle beside a start-all operation, and then, once that cycle
\* has published its snapshot, the other operations that write the registry,
\* the running flag and the start timestamp: stop-all, the per-service stop
\* and the restart. No process exits on its own and nobody quits, so the
\* monitor's loop test never takes the exit.
FirstCycle == detailed_check_counter = 0
Published == detailed_check_counter > 0

NextOwnership ==
  \/ FirstCycle /\ HcBegin
  \/ FirstCycle /\ HcCheck
  \/ FirstCycle /\ HcRead
  \/ FirstCycle /\ HcPublish
  \/ HcSleep
  \/ WkRun \/ WkRedisLaunch \/ WkRedisVerify \/ WkSvcLaunch \/ WkFinish
  \/ StartServices
  \/ Published /\ StopServices
  \/ WkStopIter \/ WkTaskkill \/ WkClear \/ WkFlag \/ WkStopEnd
  \/ Published /\ \E name \in ServiceNames : StopService(name)
  \/ Published /\ \E name \in ServiceNames : RestartStop(name)
  \/ RestartLaunch

OwnershipSpec == Init /\ [][NextOwnership]_vars

\* two monitor cycles beside a start-all operation, with a restart of one
\* service requested while the monitor sleeps between the two. No process
\* exits on its own and nobody quits.
AfterFirstCycle == Published /\ hc_pc = "sleep"
NextReplacement ==
  \/ HcBegin \/ HcCheck \/ HcRead \/ HcPublish \/ HcSleep
  \/ WkRun \/ WkRedisLaunch \/ WkRedisVerify \/ WkSvcLaunch \/ WkFinish
  \/ StartServices
  \/ AfterFirstCycle /\ \E name \in ServiceNames : RestartStop(name)
  \/ RestartLaunch

ReplacementSpec == Init /\ [][NextReplacement]_vars

\* the worker thread and the GUI thread's requests, with nobody quitting and
\* no process exiting on its own. The worker is a thread of its own: a step it
\* can take it takes, and so does the GUI thread inside restart_service.
NextStopAll ==
  \/ WkRun \/ WkRedisLaunch \/ WkRedisVerify \/ WkSvcLaunch \/ WkFinish
  \/ WkStopIter \/ WkTaskkill \/ WkClear \/ WkFlag \/ WkStopEnd
  \/ StartServices \/ StopServices
  \/ \E name \in ServiceNames : StopService(name) \/ RestartStop(name)
  \/ RestartLaunch

WorkerFairness ==
  /\ WF_vars(WkRun) /\ WF_vars(WkRedisLaunch) /\ WF_vars(WkRedisVerify)
  /\ WF_vars(WkSvcLaunch) /\ WF_vars(WkFinish)
  /\ WF_vars(WkStopIter) /\ WF_vars(WkTaskkill) /\ WF_vars(WkClear)
  /\ WF_vars(WkFlag) /\ WF_vars(WkStopEnd)
  /\ WF_vars(RestartLaunch)

StopAllSpec == Init /\ [][NextStopAll]_vars /\ WorkerFairness

\* ===================================================================== claims
\* `status` is the dict the cycle in progress publishes; `last` is what the
\* cycle found, and which probes it issued, for the service it examined last.

\* C1: a service the cycle finds not running (flag false, or no handle in the
\* registry) is mapped to unhealthy in the cycle's snapshot and is absent from
\* the confirmed-healthy map afterwards, whatever the map held before; no
\* probe is issued for it.
C1_AbsentIsUnhealthy ==
  last.seen = "absent" =>
    /\ last.name \in status.keys /\ ~StatusGet(status, last.name)
    /\ services_confirmed_healthy[last.name] = Absent
    /\ last.liveness = "none" /\ last.protocol = NotProbed

\* the flag is set, the service was confirmed healthy, and its handle is gone
C1_Witness ==
  /\ last.seen = "absent" /\ last.confirmed_before
  /\ services_running /\ ~Has(processes, last.name)

\* C2: for a service whose registered handle reports an exit code, the cycle
\* issues no liveness and no protocol probe, maps the service to unhealthy and
\* removes it from the confirmed-healthy map in that same cycle.
C2_DeadIsUnhealthy ==
  last.seen = "dead" =>
    /\ last.liveness = "none" /\ last.protocol = NotProbed
    /\ last.name \in status.keys /\ ~StatusGet(status, last.name)
    /\ services_confirmed_healthy[last.name] = Absent

\* a service confirmed healthy by an earlier cycle is found dead
C2_Witness ==
  /\ last.seen = "dead" /\ last.confirmed_before
  /\ Has(processes, last.name) /\ ~IsAlive(Get(processes, last.name))

\* C3: the monitor loop has ended only if its stop flag was cleared.
C3_LoopEndsOnlyOnStop == hc_pc = "done" => ~hc_running

AllConfirmed == ConfirmedCount(services_confirmed_healthy) = Len(Services)

\* C7 (amended): after a cycle whose snapshot maps every service to healthy,
\* the sleep interval is 15 s when every service is also in the
\* confirmed-healthy map and 8 s otherwise; after a cycle whose snapshot maps
\* every service to unhealthy it is 3 s.
C7_IntervalLaw ==
  hc_pc = "sleep" =>
    /\ (AllServicesHealthy(status) /\ AllConfirmed) => sleep_time = SleepAllConfirmed
    /\ (AllServicesHealthy(status) /\ ~AllConfirmed) => sleep_time = SleepSomeHealthy
    /\ ~AnyServiceHealthy(status) => sleep_time = SleepNoneHealthy

\* every service published healthy and confirmed: the longest tier
C7_Witness ==
  /\ hc_pc = "sleep" /\ AllServicesHealthy(status) /\ AllConfirmed
  /\ sleep_time = SleepAllConfirmed

\* C7 as stated: all healthy gives the longest tier, all unhealthy the shortest
C7_Original ==
  hc_pc = "sleep" =>
    /\ AllServicesHealthy(status) => sleep_time = SleepAllConfirmed
    /\ ~AnyServiceHealthy(status) => sleep_time = SleepNoneHealthy

ProtocolFailed(outcome) == outcome \notin {NotProbed, HttpOk}
LiveHandle(name) ==
  services_running /\ Has(processes, name) /\ IsAlive(Get(processes, name))

\* the cycle's protocol probe for `name` failed and its port check succeeded
BusyExamined(name) ==
  /\ last.name = name /\ last.seen = "alive"
  /\ ProtocolFailed(last.protocol) /\ last.liveness = "ok"
  /\ LiveHandle(name)

StartRequestStep ==
  \/ ops' # ops /\ operation' = "start"
  \/ rejected' # rejected /\ rejected'.op = "start"
StopRequestStep ==
  \/ ops' # ops /\ operation' = "stop"
  \/ rejected' # rejected /\ rejected'.op = "stop"
StartInFlight == WorkerIsRunning /\ operation = "start"

\* C4: a start request that arrives while a start-all operation is in flight
\* changes nothing of the program (it launches nothing and queues nothing); no
\* identifier is launched twice by a start-all operation and the registry never
\* holds two handles for one identifier.
C4_StartWhileStartingIsNoOp ==
  [][/\ (StartInFlight /\ StartRequestStep) => UNCHANGED Program
     /\ \A k \in Ids : launched'[k] <= 1
     /\ Cardinality(Keys(processes')) = Len(processes')]_vars

\* a start request was rejected while a start-all operation was in flight, and
\* that operation went on to launch the dependency and every service, once each
C4_Witness ==
  /\ rejected.op = "start" /\ rejected.busy = "start"
  /\ wk_pc = "idle" /\ operation = "start"
  /\ \A k \in Ids : launched[k] = 1 /\ Has(processes, k)

\* C5: while the worker thread executes a start-all or stop-all operation, no
\* start or stop request is accepted and the worker's operation kind is not
\* overwritten: every request handled in that window leaves the program
\* unchanged, so the one worker thread never runs two sequences at once.
C5_SingleFlight ==
  [][WorkerIsRunning =>
       /\ operation' = operation /\ ops' = ops
       /\ (StartRequestStep \/ StopRequestStep) => UNCHANGED Program]_vars

\* a stop request arrived mid-start, with the running flag already set, and was
\* rejected; the start-all operation then ran to its end
C5_Witness ==
  /\ rejected.op = "stop" /\ rejected.busy = "start" /\ rejected.flag
  /\ wk_pc = "idle" /\ operation = "start" /\ services_running
  /\ \A s \in ServiceNames : launched[s] = 1

\* C6: a stop request handled while the running flag is false changes nothing:
\* no process is terminated or killed, and the registry, the running flag, the
\* start timestamp and the worker's state stay as they were.
C6_StopWhenStoppedIsNoOp ==
  [][(~services_running /\ StopRequestStep) => UNCHANGED Program]_vars

\* a stop request was handled with the flag false and the worker idle: only the
\* services_running test rejected it
C6_Witness ==
  rejected.op = "stop" /\ ~rejected.flag /\ rejected.busy = "none"

\* C10: in a start-all operation whose dependency was launched and whose
\* dependency probe failed on every retry, no service is launched and the
\* registry holds no service handle when the operation ends.
C10_AbortWhenRedisSilent ==
  redis_check = "not_responding" =>
    /\ \A s \in ServiceNames : launched[s] = 0
    /\ (wk_pc = "idle" => \A s \in ServiceNames : ~Has(processes, s))

\* ---------------------------------------------------- display and overall state
\* the snapshots the control surface can hold: the empty one it starts with
\* and every map of the dependency and the services to a health bit
Snapshots ==
  {EmptySnapshot, last_health_status}
    \cup {[keys |-> Ids, healthy |-> h] : h \in SUBSET Ids}

HandleGone(name) == ~Has(processes, name) \/ ~IsAlive(Get(processes, name))

\* C11: with the running flag true, a service with no registry entry or with
\* a handle whose process has exited is displayed as `error`, whatever the
\* snapshot says about it and whatever its port does.
C11_GoneIsError ==
  \A s \in ServiceNames, snapshot \in Snapshots, port_listening \in BOOLEAN :
    (services_running /\ HandleGone(s)) =>
      DisplayState(s, snapshot, port_listening) = "error"

\* a registered service has exited with the access-violation code; a
\* snapshot that still marks it healthy does not change its display state
C11_Witness ==
  /\ services_running
  /\ \E s \in ServiceNames :
       /\ Has(processes, s) /\ Poll(Get(processes, s)) = AccessViolation
       /\ DisplayState(s, [keys |-> Ids, healthy |-> Ids], TRUE) = "error"

\* C17 (amended): with the running flag true, a live handle and a snapshot
\* that marks the service unhealthy, every service other than gary is
\* displayed as `starting`; gary is displayed as `starting` when its port is
\* listening and as `error` when it is not.
C17_UnhealthyAliveDisplay ==
  \A s \in ServiceNames, snapshot \in Snapshots, port_listening \in BOOLEAN :
    (LiveHandle(s) /\ ~StatusGet(snapshot, s)) =>
      DisplayState(s, snapshot, port_listening) =
        IF s = "gary" /\ ~port_listening THEN "error" ELSE "starting"

\* gary is alive, the flag is set, and the snapshot held does not mark it healthy
C17_Witness ==
  /\ LiveHandle("gary") /\ ~StatusGet(last_health_status, "gary")
  /\ DisplayState("gary", last_health_status, FALSE) = "error"
  /\ DisplayState("gary", last_health_status, TRUE) = "starting"

\* C17 as stated: `starting` for every service, gary included
C17_Original ==
  \A s \in ServiceNames, snapshot \in Snapshots, port_listening \in BOOLEAN :
    (LiveHandle(s) /\ ~StatusGet(snapshot, s)) =>
      DisplayState(s, snapshot, port_listening) = "starting"

\* C18: a service is displayed as `running` exactly when the flag is true, its
\* handle is alive and the snapshot marks it healthy, and as `stopped` exactly
\* when the flag is false.
C18_RunningAndStoppedIff ==
  \A s \in ServiceNames, snapshot \in Snapshots, port_listening \in BOOLEAN :
    /\ DisplayState(s, snapshot, port_listening) = "running"
         <=> (LiveHandle(s) /\ StatusGet(snapshot, s))
    /\ DisplayState(s, snapshot, port_listening) = "stopped"
         <=> ~services_running

\* a service restarted while the flag is false: a live registered handle,
\* displayed as `stopped` even under a snapshot that marks it healthy
C18_Witness ==
  /\ ~services_running
  /\ \E s \in ServiceNames :
       /\ Has(processes, s) /\ IsAlive(Get(processes, s))
       /\ DisplayState(s, [keys |-> Ids, healthy |-> Ids], TRUE) = "stopped"

\* the inputs of get_system_status besides the program state: the snapshot
\* held, the service ports that are listening, and whether port 6379 is
PortSets == SUBSET ServiceNames
AllHealthy == [keys |-> Ids, healthy |-> Ids]
ServicesHealthy == [keys |-> Ids, healthy |-> ServiceNames]

\* C19: the overall state is `stopped` whenever the running flag is false and
\* `error` whenever the flag is true and a registered service handle has
\* exited, whatever the snapshot and the ports say; an exited dependency
\* handle does not by itself make it `error`: with no service handle exited
\* and the dependency port answering, the overall state is not `error`.
C19_StoppedAndDeadRules ==
  \A snapshot \in Snapshots, ports \in PortSets, redis_port \in BOOLEAN :
    /\ ~services_running =>
         GetSystemStatus(snapshot, ports, redis_port) = "stopped"
    /\ (services_running
          /\ \E s \in ServiceNames : Has(processes, s) /\ ~IsAlive(Get(processes, s)))
         => GetSystemStatus(snapshot, ports, redis_port) = "error"
    /\ (services_running
          /\ \A s \in ServiceNames : Has(processes, s) => IsAlive(Get(processes, s)))
         => GetSystemStatus(snapshot, ports, TRUE) # "error"

\* the dependency's handle has exited, every service is alive: `running`
\* under a snapshot that marks everything healthy
C19_Witness ==
  /\ services_running
  /\ Has(processes, Redis) /\ ~IsAlive(Get(processes, Redis))
  /\ \A s \in ServiceNames : LiveHandle(s)
  /\ GetSystemStatus(AllHealthy, {}, FALSE) = "running"

\* the services with a live handle that are healthy or port-listening
LiveHealthy(snapshot, ports) ==
  {s \in ServiceNames : LiveHandle(s) /\ (StatusGet(snapshot, s) \/ s \in ports)}
NoServiceExited ==
  services_running
    /\ \A s \in ServiceNames : Has(processes, s) => IsAlive(Get(processes, s))

\* C20 (amended): with the flag true and no registered service handle exited,
\* k the number of services with a live handle that are healthy or
\* port-listening, n the number of configured services, and the dependency
\* healthy when the snapshot says so or port 6379 is listening: the overall
\* state is `running` iff k = n and the dependency is healthy, `error` iff
\* k = 0 and the dependency is not healthy, and `starting` in every other case.
C20_CountRule ==
  \A snapshot \in Snapshots, ports \in PortSets, redis_port \in BOOLEAN :
    NoServiceExited =>
      LET k == Cardinality(LiveHealthy(snapshot, ports))
          n == Len(Services)
          dep == StatusGet(snapshot, Redis) \/ redis_port
          overall == GetSystemStatus(snapshot, ports, redis_port)
      IN /\ overall = "running" <=> (k = n /\ dep)
         /\ overall = "error" <=> (k = 0 /\ ~dep)
         /\ overall = "starting" <=> ~(k = n /\ dep) /\ ~(k = 0 /\ ~dep)

\* every service alive and healthy, the dependency not: `starting`
C20_Witness ==
  /\ NoServiceExited /\ \A s \in ServiceNames : LiveHandle(s)
  /\ GetSystemStatus(ServicesHealthy, {}, FALSE) = "starting"

\* C20 as stated, k read as the code counts it: `starting` iff 0 < k < n, or
\* k = 0 with the dependency healthy; `error` in every remaining case
C20_Original ==
  \A snapshot \in Snapshots, ports \in PortSets, redis_port \in BOOLEAN :
    NoServiceExited =>
      LET k == Cardinality(LiveHealthy(snapshot, ports))
          n == Len(Services)
          dep == StatusGet(snapshot, Redis) \/ redis_port
          overall == GetSystemStatus(snapshot, ports, redis_port)
      IN /\ overall = "running" <=> (k = n /\ dep)
         /\ overall = "starting" <=> ((0 < k /\ k < n) \/ (k = 0 /\ dep))
         /\ overall = "error" <=>
              ~(k = n /\ dep) /\ ~((0 < k /\ k < n) \/ (k = 0 /\ dep))

\* a step of quit_application on the GUI thread
QuitStep == main_pc' # main_pc /\ main_pc' \in {"quit_wait", "exited"}

\* C16: while a start-all or stop-all operation is in flight on the worker
\* thread, the shutdown path terminates no process, leaves the registry as it
\* is and does not terminate the worker thread.
C16_NoPreemption ==
  [][(WorkerIsRunning /\ QuitStep) =>
       /\ proc' = proc
       /\ processes' = processes
       /\ wk_pc' = wk_pc]_vars

\* --------------------------------------------------------------- the registry
\* C14 (amended): every registry entry is the handle of a process launched
\* for that identifier, and an observed exit removes nothing: when a monitor
\* cycle finds a service's process dead, the registry still holds the entry
\* afterwards (only the per-service stop, stop-all and the shutdown stop
\* remove entries).
C14_ExitKeepsEntry ==
  [][/\ (last' # last /\ last'.seen = "dead") =>
          (processes' = processes /\ Has(processes', last'.name))
     /\ \A i \in 1..Len(processes') :
          /\ proc'[processes'[i].pid] # NotLaunched
          /\ image'[processes'[i].pid] = processes'[i].name]_vars

\* in its second cycle the monitor finds a registered service dead: the entry,
\* with its access-violation exit code, is still in the registry
C14_Witness ==
  /\ last.seen = "dead" /\ detailed_check_counter = 1
  /\ Has(processes, last.name)
  /\ Poll(Get(processes, last.name)) = AccessViolation

\* C14 as stated: once a monitor cycle has observed that a service's process
\* exited, the registry no longer holds an entry for that service
C14_Original ==
  last.seen = "dead" => ~Has(processes, last.name)

\* the monitor passed the membership test for the service it is at and the
\* entry is gone when it reads the handle
RemovedUnderMonitor == hc_pc = "read" /\ ~Has(processes, Services[hc_i])

\* C15: when the entry of the service the monitor is at is removed between
\* the membership test and the read of the handle, the monitor's next step
\* records the service as unhealthy and goes on with the cycle.
C15_ToleratesRemoval ==
  [][(RemovedUnderMonitor /\ hc_pc' # hc_pc) =>
       /\ hc_pc' \in {"check", "publish"}
       /\ Services[hc_i] \in status'.keys
       /\ ~StatusGet(status', Services[hc_i])]_vars

\* ------------------------------------------------------------------- shutdown
\* the monitor is between two cycles: in its sleep or at its loop test
BetweenCycles == hc_pc \in {"sleep", "loop"}

\* C12: the stop flag, once set, stays set; from then on a monitor that is in
\* its sleep leaves it without sleeping further, begins no cycle and
\* publishes nothing; and it terminates (or the application has exited).
C12_StopEndsMonitor ==
  /\ [][/\ ~hc_running => ~hc_running'
        /\ (~hc_running /\ BetweenCycles) =>
             /\ hc_pc' \in {"sleep", "loop", "done"}
             /\ now' = now
             /\ inbox' = inbox \/ inbox' = Tail(inbox)
             /\ detailed_check_counter' = detailed_check_counter]_vars
  /\ (~hc_running /\ hc_pc = "sleep") ~> (hc_pc = "done" \/ ~AppLive)

\* the flag was set during the sleep after a published cycle, and the monitor
\* has left its loop with no error and the clock where the sleep began
C12_Witness ==
  /\ ~hc_running /\ hc_pc = "done" /\ ~hc_error
  /\ detailed_check_counter = 1 /\ now = current_time
  /\ sleep_time = SleepSomeHealthy

\* ------------------------------------------------------------------ snapshots
\* the identifiers a cycle has written when it is about to examine service i
WrittenBefore(i) == {Redis} \cup {Services[j] : j \in 1..(i - 1)}

\* C13: a cycle's dictionary holds exactly the entries this cycle has written
\* so far; every published snapshot is the finished dictionary, with an entry
\* for the dependency and every configured service; and the control surface's
\* last snapshot only ever changes to the oldest undelivered one, whole.
C13_WholeSnapshots ==
  /\ [](hc_pc \in {"check", "read"} => status.keys = WrittenBefore(hc_i))
  /\ [](\A k \in 1..Len(inbox) : inbox[k].keys = Ids)
  /\ [](last_health_status = EmptySnapshot \/ last_health_status.keys = Ids)
  /\ [][/\ Len(inbox') > Len(inbox) =>
             (hc_pc = "publish" /\ status.keys = Ids /\ inbox' = Append(inbox, status))
        /\ last_health_status' # last_health_status =>
             (inbox # <<>> /\ last_health_status' = Head(inbox))]_vars

\* the control surface holds one cycle's snapshot and the next cycle's, which
\* differs from it, is waiting to replace it
C13_Witness ==
  /\ Len(inbox) = 1 /\ main_pc = "idle"
  /\ last_health_status.keys = Ids /\ last_health_status.healthy # {}
  /\ inbox[1].healthy # last_health_status.healthy
  /\ ~(last_health_status.healthy \subseteq inbox[1].healthy)

\* ---------------------------------------------------------------- stop paths
\* C21: whatever the terminate and the force-kill of a handle do, a stop path
\* runs its remaining steps: the per-service stop removes the registry entry
\* of the service it was asked about, the restart goes on to its relaunch, the
\* stop-all pass moves on to the next handle or the by-name kill, and the
\* shutdown stop clears the registry and the running flag.
C21_KillFailureContained ==
  [][/\ \A name \in ServiceNames :
          /\ (Has(processes, name) /\ StopService(name)) => ~Has(processes', name)
          /\ RestartStop(name) => (main_pc' = "restart_launch" /\ main_arg' = name)
     /\ (WkStopIter /\ Len(processes) = wk_len) => wk_pc' \in {"stop_iter", "taskkill"}
     /\ (QuitStopSync /\ services_running) => (processes' = <<>> /\ ~services_running')]_vars

\* the worker's own step out of the termination pass of a stop-all operation
PassEnds == wk_pc = "stop_iter" /\ wk_pc' # "stop_iter" /\ main_pc' = main_pc

\* C22: the termination pass of a stop-all operation ends only once it has
\* been through every tracked handle; a round of the pass stops no process
\* but the one it is at, and whatever the terminate and the force-kill of
\* that handle do, the pass goes on to the next round.
C22_PassReachesEveryHandle ==
  [][/\ PassEnds => (wk_pc' = "taskkill" /\ wk_i > Len(processes))
     /\ (WkStopIter /\ wk_i <= wk_len /\ Len(processes) = wk_len) =>
          /\ wk_pc' = "stop_iter" /\ wk_i' = wk_i + 1
          /\ \A p \in Pids : proc'[p] # proc[p] => p = processes[wk_i].pid]_vars

\* the worker thread is inside _stop_services, past its guard
InStopAll == operation = "stop" /\ wk_pc \in {"stop_iter", "taskkill", "clear", "flag", "stop_end"}
WorkerStep == wk_pc' # wk_pc \/ wk_i' # wk_i

\* C23: while a stop-all operation is in flight the running flag goes false
\* only in the operation's own step after the clear of the registry, the
\* worker removes registry entries only by the clear, and the clear comes
\* after the by-name kill, which comes after the pass over every handle.
C23_ClearAfterPass ==
  [][InStopAll =>
       /\ (services_running /\ ~services_running') => wk_pc = "flag"
       /\ (WorkerStep /\ processes' # processes) =>
            (wk_pc = "clear" /\ processes' = <<>>)
       /\ (wk_pc # "clear" /\ wk_pc' = "clear") => wk_pc = "taskkill"
       /\ (wk_pc # "taskkill" /\ wk_pc' = "taskkill") =>
            (wk_pc = "stop_iter" /\ wk_i > wk_len)]_vars

\* --------------------------------------------------------------- start-all
\* the start sequence returns out of step 1: the dependency executable is
\* missing or its launch raised (from "redis_launch"), or the dependency
\* process exited within the settle delay (from "redis_verify")
StepOneFails ==
  /\ operation = "start" /\ wk_pc \in {"redis_launch", "redis_verify"}
  /\ wk_pc' = "idle" /\ main_pc' = main_pc

\* C24: the running flag becomes true, and the start timestamp is written,
\* only when the dependency has been launched by the operation in flight and
\* found alive after its settle delay; a start-all operation that returns out
\* of step 1 leaves the flag false.
C24_FlagAfterStepOne ==
  [][/\ (~services_running /\ services_running') =>
          (launched[Redis] = 1 /\ wk_pc = "redis_verify" /\ IsAlive(wk_pid))
     /\ (start_time' # start_time /\ start_time' # NoTime) =>
          (launched[Redis] = 1 /\ wk_pc = "redis_verify" /\ IsAlive(wk_pid))
     /\ StepOneFails => ~services_running']_vars

\* ------------------------------------------------------------------ restart
\* the GUI thread goes from the stop half of restart_service to its relaunch
RestartStopDone == main_pc = "idle" /\ main_pc' = "restart_launch"
\* the relaunch of restart_service creates a process
RestartLaunched == main_pc = "restart_launch" /\ main_pc' = "idle" /\ proc' # proc

\* C25: a restart launches only from its relaunch half, which is entered only
\* out of the stop half; the stop half launches and registers nothing, and a
\* handle it found alive has either been stopped or its terminate raised; a
\* relaunch that creates a process registers that new, live process under the
\* restarted service and leaves every other registry entry as it was.
C25_RestartReplacesHandle ==
  [][/\ RestartStopDone =>
          /\ main_arg' \in ServiceNames
          /\ processes' = processes /\ image' = image
          /\ Has(processes, main_arg') =>
               LET p == Get(processes, main_arg') IN
                 IsAlive(p) => (proc'[p] = TerminatedCode \/ proc' = proc)
     /\ RestartLaunched =>
          LET s == main_arg
              p == NextPid
          IN /\ proc[p] = NotLaunched /\ proc'[p] = NoPoll /\ image'[p] = s
             /\ Has(processes', s) /\ Get(processes', s) = p
             /\ Keys(processes') = Keys(processes) \cup {s}
             /\ \A k \in Keys(processes) \ {s} :
                  Get(processes', k) = Get(processes, k)]_vars

\* a service launched by the start-all was restarted: its first process was
\* terminated, the registry maps it to a second, live process, and the other
\* three entries are still there
C25_Witness ==
  /\ main_pc = "idle" /\ ops = 1 /\ Len(processes) = Len(Services) + 1
  /\ \E s \in ServiceNames :
       /\ Has(processes, s) /\ IsAlive(Get(processes, s))
       /\ \E q \in Pids :
            q # Get(processes, s) /\ image[q] = s /\ proc[q] = TerminatedCode

\* ----------------------------------------------------------------- the monitor
\* C26: after a cycle the sleep interval is 15 s iff the published snapshot
\* marks every configured service healthy and every configured service is in
\* the confirmed-healthy map; otherwise 8 s iff the snapshot marks at least
\* one service healthy; otherwise 3 s; and the interval is the same whichever
\* bit the snapshot holds for the dependency.
C26_ThreeTierLaw ==
  hc_pc = "sleep" =>
    LET all == \A s \in ServiceNames : StatusGet(status, s)
        any == \E s \in ServiceNames : StatusGet(status, s)
        confirmed == \A s \in ServiceNames : services_confirmed_healthy[s] # Absent
    IN /\ sleep_time = SleepAllConfirmed <=> (all /\ confirmed)
       /\ sleep_time = SleepSomeHealthy <=> (~(all /\ confirmed) /\ any)
       /\ sleep_time = SleepNoneHealthy <=> (~(all /\ confirmed) /\ ~any)
       /\ \A bit \in BOOLEAN :
            SleepTime(SetStatus(status, Redis, bit), services_confirmed_healthy)
              = sleep_time

\* some but not all services published healthy while the dependency is
\* published unhealthy: the middle tier
C26_Witness ==
  /\ hc_pc = "sleep" /\ sleep_time = SleepSomeHealthy
  /\ AnyServiceHealthy(status) /\ ~AllServicesHealthy(status)
  /\ ~StatusGet(status, Redis)

\* the monitor's step examines service s
Examines(s) == last' # last /\ last'.name = s
\* the entry of s, if any, is older than the freshness window at this cycle
Expired(s) ==
  /\ services_confirmed_healthy[s] # Absent
  /\ current_time - services_confirmed_healthy[s] >= FreshWindow

\* C27: a confirmed-healthy timestamp is written only by an examination that
\* found the process alive and whose protocol probe answered 200, with no
\* liveness probe involved, and it is the cycle's time; an entry is removed by
\* an examination whose protocol probe failed or that found the process dead
\* or absent, and only by such an examination; an entry 300 s old or older is
\* not trusted: the examination issues a protocol probe, and afterwards the
\* entry is either gone or carries the cycle's time. So an entry within the
\* window stems from a protocol probe that succeeded at the entry's time.
C27_ConfirmedTransitions ==
  [][\A s \in ServiceNames :
       LET before == services_confirmed_healthy[s]
           after == services_confirmed_healthy'[s]
           failed == ProtocolFailed(last'.protocol) \/ last'.seen \in {"dead", "absent"}
       IN /\ (after # before /\ after # Absent) =>
               /\ Examines(s) /\ last'.seen = "alive"
               /\ last'.protocol = HttpOk /\ last'.liveness = "none"
               /\ Has(processes, s) /\ IsAlive(Get(processes, s))
               /\ after = current_time
          /\ (Examines(s) /\ failed) => after = Absent
          /\ (before # Absent /\ after = Absent) => (Examines(s) /\ failed)
          /\ (Examines(s) /\ last'.seen = "alive" /\ Expired(s)) =>
               /\ last'.protocol # NotProbed
               /\ after \in {Absent, current_time}]_vars

\* a confirmation older than the window was not trusted: the protocol probe
\* was issued again, answered 200, and the entry carries the new cycle's time
C27_Witness ==
  /\ last.seen = "alive" /\ last.confirmed_before /\ last.protocol = HttpOk
  /\ services_confirmed_healthy[last.name] = current_time
  /\ current_time >= FreshWindow

\* the age, at this cycle, of the entry of s
Age(s) == current_time - services_confirmed_healthy[s]
Running(s) == Has(processes, s) /\ IsAlive(Get(processes, s))

\* C28: an examination that finds the service's process running issues the
\* liveness probe and no protocol probe when the service has an entry less
\* than 300 s old, and issues a protocol probe in every other case; an
\* examination issues probes only for a process it finds running.
C28_ProbeSelection ==
  [][\A s \in ServiceNames :
       Examines(s) =>
         LET fresh == services_confirmed_healthy[s] # Absent /\ Age(s) < FreshWindow
         IN /\ (last'.seen = "alive" /\ fresh) =>
                 (last'.liveness # "none" /\ last'.protocol = NotProbed)
            /\ (last'.seen = "alive" /\ ~fresh) => last'.protocol # NotProbed
            /\ last'.seen = "alive" => Running(s)
            /\ last'.seen # "alive" =>
                 (last'.liveness = "none" /\ last'.protocol = NotProbed)
            /\ ~(services_running /\ Running(s)) => last'.seen # "alive"]_vars

\* an entry one second short of the window: the liveness probe alone
C28_Witness ==
  /\ last.seen = "alive" /\ last.liveness # "none" /\ last.protocol = NotProbed
  /\ services_confirmed_healthy[last.name] # Absent
  /\ Age(last.name) = FreshWindow - 1

\* the bit the cycle in progress holds for the service it examined last
LastBit == StatusGet(status, last.name)

\* C29 (amended): for a service found running, the bit the cycle publishes is
\* the liveness probe's result when only the liveness probe was issued (the
\* service confirmed and fresh); otherwise it is true iff the protocol probe
\* answered 200 or, the protocol probe having failed, the port check that
\* follows it succeeded. The bit, once written, stays as it is until the
\* cycle publishes.
C29_PublishedBit ==
  /\ [](last.seen = "alive" =>
          IF last.protocol = NotProbed
          THEN LastBit <=> last.liveness = "ok"
          ELSE LastBit <=> (last.protocol = HttpOk \/ last.liveness = "ok"))
  /\ [][\A s \in ServiceNames :
          (StatusGet(status', s) # StatusGet(status, s)) =>
            (Examines(s) \/ hc_pc = "loop")]_vars

\* the cycle is about to publish; the last service's protocol probe got a 500
\* and its port is listening: published healthy
C29_Witness ==
  /\ hc_pc = "publish" /\ last.seen = "alive"
  /\ last.protocol = HttpError /\ last.liveness = "ok" /\ LastBit

\* C29 as stated: with a protocol probe issued, the bit is that probe's result
C29_Original ==
  last.seen = "alive" =>
    IF last.protocol = NotProbed
    THEN LastBit <=> last.liveness = "ok"
    ELSE LastBit <=> last.protocol = HttpOk

\* ------------------------------------------------------------- start ordering
\* a step of the worker thread creates process p
WorkerCreates(p) ==
  proc[p] = NotLaunched /\ proc'[p] # NotLaunched /\ main_pc' = main_pc

\* C30: a start-all operation creates the dependency's process first, before
\* any of its service launches; it creates a service's process only after the
\* dependency was launched and polled alive at the end of its settle delay,
\* only at that service's turn in declaration order, with neither that
\* service nor any later one launched before in the operation; so each
\* identifier is launched at most once, in the order redis, gary, melodyflow,
\* stable-audio.
C30_StartOrdering ==
  [][\A p \in Pids :
       WorkerCreates(p) =>
         IF image'[p] = Redis
         THEN /\ wk_pc = "redis_launch"
              /\ \A k \in Ids : launched[k] = 0
              /\ launched'[Redis] = 1
         ELSE \E j \in 1..Len(Services) :
                /\ image'[p] = Services[j]
                /\ wk_pc = "svc_launch" /\ wk_i = j
                /\ launched[Redis] = 1 /\ redis_check # "none"
                /\ proc[wk_pid] # NotLaunched /\ image[wk_pid] = Redis
                /\ \A m \in j..Len(Services) : launched[Services[m]] = 0
                /\ launched'[Services[j]] = 1]_vars

\* a start-all operation at its closing lines: the dependency answered its
\* probe, and the four processes were created in the order redis, gary,
\* melodyflow, stable-audio
C30_Witness ==
  /\ wk_pc = "finish" /\ redis_check = "responding"
  /\ \A k \in Ids : launched[k] = 1 /\ Has(processes, k)
  /\ Get(processes, Redis) < Get(processes, Services[1])
  /\ \A j \in 1..(Len(Services) - 1) :
       Get(processes, Services[j]) < Get(processes, Services[j + 1])

\* ---------------------------------------------------------- sibling isolation
\* C31: a round of the start-all's service loop, whether it launches its
\* service or fails to (files missing, Popen raising) and whatever has become
\* of the processes launched before, removes no registry entry, changes no
\* entry but its own service's, stops no process, and hands over to the next
\* declared service's round (to the closing lines after the last one).
C31_SiblingIsolation ==
  [][WkSvcLaunch =>
       /\ \A k \in Keys(processes) :
            /\ Has(processes', k)
            /\ k # Services[wk_i] => Get(processes', k) = Get(processes, k)
       /\ \A p \in Pids : proc[p] # NotLaunched => proc'[p] = proc[p]
       /\ IF wk_i < Len(Services)
          THEN wk_pc' = "svc_launch" /\ wk_i' = wk_i + 1
          ELSE wk_pc' = "finish"]_vars

\* the start-all is at its closing lines: melodyflow could not be launched,
\* gary before it and stable-audio after it were launched and are registered
C31_Witness ==
  /\ wk_pc = "finish" /\ operation = "start"
  /\ launched["melodyflow"] = 0 /\ ~Has(processes, "melodyflow")
  /\ launched["gary"] = 1 /\ Has(processes, "gary")
  /\ launched["stable-audio"] = 1 /\ Has(processes, "stable-audio")

\* --------------------------------------------------------- the dependency bit
ServiceBits(st) == st.healthy \ {Redis}
\* what an examination found, as far as the published bit goes
FoundHealthy(e) == e.liveness = "ok" \/ e.protocol = HttpOk
FoundFailed(e) == ProtocolFailed(e.protocol) \/ e.seen \in {"dead", "absent"}

\* C32: every cycle begins by writing the dependency's bit, and that step
\* writes no service bit and leaves the confirmed-healthy map alone; from
\* then on the snapshot in the making always holds the dependency's entry.
\* An examination of a service leaves the dependency's bit alone, and what
\* it writes is determined without that bit: the service bits become the
\* earlier service bits with this service set to what its own probes found,
\* the confirmed-healthy map changes at this service only, to the cycle's
\* time on a protocol success, to absent on a failure, and not at all after
\* a liveness-only probe; and which probes are issued depends on the handle
\* and the entry's age alone.
C32_DependencyBitIsInert ==
  /\ [](hc_pc \in {"check", "read", "publish", "sleep"} => Redis \in status.keys)
  /\ [][/\ (hc_pc = "loop" /\ hc_pc' = "check") =>
             /\ Redis \in status'.keys /\ ServiceBits(status') = {}
             /\ services_confirmed_healthy' = services_confirmed_healthy
        /\ \A s \in ServiceNames :
             Examines(s) =>
               /\ StatusGet(status', Redis) <=> StatusGet(status, Redis)
               /\ ServiceBits(status') =
                    IF FoundHealthy(last') THEN ServiceBits(status) \cup {s}
                    ELSE ServiceBits(status) \ {s}
               /\ services_confirmed_healthy' =
                    [services_confirmed_healthy EXCEPT
                       ![s] = IF last'.protocol = HttpOk THEN current_time
                              ELSE IF FoundFailed(last') THEN Absent ELSE @]
               /\ last'.seen = "alive" <=> (services_running /\ Running(s))
               /\ last'.protocol = NotProbed <=>
                    (last'.seen # "alive"
                       \/ (services_confirmed_healthy[s] # Absent
                             /\ Age(s) < FreshWindow))]_vars

\* the dependency did not answer in this cycle, and every service is
\* published healthy and confirmed by it
C32_Witness ==
  /\ hc_pc = "publish" /\ ~StatusGet(status, Redis)
  /\ AllServicesHealthy(status)
  /\ \A s \in ServiceNames : services_confirmed_healthy[s] = current_time

\* ------------------------------------------------------------------ ownership
\* the step is one of the monitor thread's
MonitorMoves == hc_pc' # hc_pc \/ hc_i' # hc_i

\* C33: a step of the monitor thread leaves the registry, the running flag and
\* the start timestamp as they are, and every other step (of a start-all, a
\* stop-all, a per-service stop or a restart) leaves the confirmed-healthy map
\* as it is.
C33_Ownership ==
  [][/\ MonitorMoves =>
          /\ processes' = processes
          /\ services_running' = services_running
          /\ start_time' = start_time
     /\ ~MonitorMoves =>
          services_confirmed_healthy' = services_confirmed_healthy]_vars

\* a stop-all has run to its end after the monitor confirmed a service: the
\* registry is empty, the flag false, and the confirmation is still there
C33_Witness ==
  /\ operation = "stop" /\ wk_pc = "idle" /\ start_time = NoTime
  /\ ~services_running /\ processes = <<>>
  /\ \E s \in ServiceNames : services_confirmed_healthy[s] # Absent

\* ------------------------------------------------------- environment layering
\* the inherited environments and the overrides files: each name unset or
\* set to a value that tells the layer
InheritedEnvs == [EnvNames -> {Unset, "inherited"}]
OverrideFiles == [EnvNames -> {Unset, "file"}]

\* the value of v for service `name` by the layers' precedence
Layered(name, v, inherited, file_exists, file) ==
  IF EncodingOverrides[v] # Unset THEN EncodingOverrides[v]
  ELSE IF name = "melodyflow" /\ MelodyflowOverrides[v] # Unset
       THEN MelodyflowOverrides[v]
  ELSE IF file_exists /\ file[v] # Unset THEN file[v]
  ELSE inherited[v]

\* C34: when the start-all is about to launch a service, and when a restart
\* is about to relaunch one: for every inherited environment and every
\* overrides file (or none), the environment handed to that service holds for
\* each name the value of the highest layer that defines it: inherited, then
\* the file, then the melodyflow overrides (for melodyflow only), then the
\* encoding overrides; so for a service other than melodyflow the two
\* melodyflow names hold what the file or the inherited environment says, and
\* are unset when neither defines them.
C34_EnvironmentLayering ==
  /\ wk_pc = "svc_launch" =>
       \A inherited \in InheritedEnvs, file \in OverrideFiles, file_exists \in BOOLEAN :
         LET s == Services[wk_i]
             env == StartAllEnv(inherited, file_exists, file)[s]
         IN \A v \in EnvNames :
              /\ env[v] = Layered(s, v, inherited, file_exists, file)
              /\ (s # "melodyflow" /\ MelodyflowOverrides[v] # Unset
                    /\ inherited[v] = Unset /\ (file_exists => file[v] = Unset)) =>
                   env[v] = Unset
  /\ main_pc = "restart_launch" =>
       \A inherited \in InheritedEnvs, file \in OverrideFiles, file_exists \in BOOLEAN :
         LET env == RestartEnv(main_arg, inherited, file_exists, file)
         IN \A v \in EnvNames :
              env[v] = Layered(main_arg, v, inherited, file_exists, file)

\* the start-all has launched melodyflow and is about to launch stable-audio;
\* with XFORMERS_DISABLED set in neither lower layer, melodyflow got "1" and
\* stable-audio gets nothing, and a name set in both lower layers comes from
\* the file
C34_Witness ==
  /\ wk_pc = "svc_launch" /\ Services[wk_i] = "stable-audio"
  /\ launched["melodyflow"] = 1
  /\ LET file == [v \in EnvNames |-> IF v = "PATH" THEN "file" ELSE Unset]
         inherited == [v \in EnvNames |-> IF v = "PATH" THEN "inherited" ELSE Unset]
         envs == StartAllEnv(inherited, TRUE, file)
     IN /\ envs["melodyflow"]["XFORMERS_DISABLED"] = "1"
        /\ envs["stable-audio"]["XFORMERS_DISABLED"] = Unset
        /\ envs["stable-audio"]["PATH"] = "file"
        /\ envs["stable-audio"]["PYTHONIOENCODING"] = "utf-8"

\* ------------------------------------------------------- the dependency probe
FirstPong(pings) ==
  IF \E i \in 1..RedisConfigs : pings[i] = "pong"
  THEN CHOOSE i \in 1..RedisConfigs :
         pings[i] = "pong" /\ \A j \in 1..(i - 1) : pings[j] # "pong"
  ELSE 0

\* C35: once the start sequence has probed the dependency: whatever the
\* client library and the sockets do, the dependency probe returns true or
\* false and never raises; when the client library is there and some ping
\* succeeds it returns true at the first such ping, with no later ping and no
\* socket exchange; otherwise it makes every ping it can and returns true
\* exactly when a listening fallback port replied with the PONG token, false
\* when none did.
C35_ProbeNeverRaises ==
  redis_check # "none" =>
    \A import_ok \in BOOLEAN, pings \in [1..RedisConfigs -> PingOutcomes],
       listening \in [1..PortsToTry -> BOOLEAN],
       replies \in [1..PortsToTry -> SocketOutcomes] :
      LET r == check_redis_health(import_ok, pings, listening, replies)
          pong == \E j \in 1..PortsToTry : listening[j] /\ replies[j] = "pong"
      IN /\ r.value \in {"true", "false"}
         /\ IF import_ok /\ FirstPong(pings) > 0
            THEN r.value = "true" /\ r.pings = FirstPong(pings) /\ r.sockets = 0
            ELSE /\ r.pings = IF import_ok THEN RedisConfigs ELSE 0
                 /\ r.value = "true" <=> pong
                 /\ r.value = "false" <=> ~pong

\* the start sequence has probed the dependency it launched and found it
\* answering; a probe whose pings all raise, the last one a plain Exception,
\* and whose second fallback port replies with the token returns true, and
\* one without the client library and with no port listening returns false
C35_Witness ==
  /\ redis_check = "responding"
  /\ check_redis_health(TRUE,
                        <<"ConnectionError", "TimeoutError", "Exception">>,
                        <<TRUE, TRUE>>, <<"Exception", "pong">>)
       = [value |-> "true", pings |-> 3, sockets |-> 2]
  /\ check_redis_health(FALSE, <<"pong", "pong", "pong">>,
                        <<FALSE, FALSE>>, <<"pong", "pong">>).value = "false"

\* ------------------------------------------------- registry and running flag
\* no worker operation is in flight and the GUI thread is in no handler
Quiescent == wk_pc = "idle" /\ main_pc = "idle"

\* C36: whenever the running flag is false and no operation is in flight, the
\* registry is empty.
C36_StoppedMeansEmpty ==
  (~services_running /\ Quiescent) => processes = <<>>

\* the live processes the supervisor launched for service s
LiveFor(s) == {p \in Pids : IsAlive(p) /\ image[p] = s}

\* C37: every live process launched for a service is the one the registry
\* entry of that service refers to, so a service has at most one live
\* launched process.
C37_NoOrphan ==
  \A s \in ServiceNames :
    /\ \A p \in LiveFor(s) : Has(processes, s) /\ Get(processes, s) = p
    /\ Cardinality(LiveFor(s)) <= 1

\* ------------------------------------- a failed port check on a confirmation
\* the latest examination found the process running and its port check, the
\* only probe issued, failed
LivenessFailed ==
  last.seen = "alive" /\ last.liveness = "fail" /\ last.protocol = NotProbed

\* C39: an examination that finds the process of a confirmed and fresh
\* service running and whose port check fails writes the service as
\* unhealthy, issues no protocol probe and leaves the confirmed-healthy entry
\* as it is; the entry is still there afterwards, and a later examination
\* issues a protocol probe for the service only once the entry is 300 s old,
\* the entry going away before that only when the process is found dead or
\* absent.
C39_FailedLivenessKeepsEntry ==
  /\ [](LivenessFailed =>
          (services_confirmed_healthy[last.name] # Absent /\ ~LastBit))
  /\ [][\A s \in ServiceNames :
          LET before == services_confirmed_healthy[s]
              after == services_confirmed_healthy'[s]
              fresh == before # Absent /\ Age(s) < FreshWindow
          IN /\ (Examines(s) /\ fresh /\ last'.seen = "alive"
                   /\ last'.liveness = "fail") =>
                  /\ ~StatusGet(status', s)
                  /\ last'.protocol = NotProbed
                  /\ after = before
             /\ (Examines(s) /\ last'.protocol # NotProbed) => ~fresh
             /\ (fresh /\ after # before) =>
                  (Examines(s) /\ last'.seen \in {"dead", "absent"})]_vars

\* gary, confirmed in an earlier cycle, fails its port check in this one and
\* keeps its entry; the cycle holds it as unhealthy
C39_Witness ==
  /\ LivenessFailed /\ last.name = "gary" /\ last.confirmed_before
  /\ services_confirmed_healthy["gary"] # Absent
  /\ Age("gary") < FreshWindow
  /\ "gary" \in status.keys /\ ~StatusGet(status, "gary")

\* ------------------------------------------- confirmation and replacement
\* the first process the supervisor launched for service s
FirstLaunched(s) ==
  CHOOSE p \in Pids : image[p] = s /\ \A q \in Pids : image[q] = s => p <= q

\* C38: when an examination of s issues the liveness probe alone, the handle
\* registered for s is the one whose protocol probe wrote the confirmation.
\* With a restart requested only between the two cycles, a
\* confirmation the second cycle relies on was written by the first cycle,
\* for the first process launched for s: a process launched by a restart of s
\* is examined with a protocol probe.
C38_ConfirmationFollowsProcess ==
  [][\A s \in ServiceNames :
       (Examines(s) /\ last'.seen = "alive" /\ last'.protocol = NotProbed) =>
         Get(processes, s) = FirstLaunched(s)]_vars

\* ---------------------------------------------------- stop-all completes
StopAccepted == accepted = "stop" /\ services_running
StopAllDone == processes = <<>> /\ ~services_running /\ wk_pc = "idle"

\* C40: a stop-all request accepted while the running flag is true leads to a
\* state where the registry is empty, the running flag is false and the
\* worker is idle, whatever per-service stops and restarts the GUI thread
\* runs meanwhile.
C40_StopAllCompletes == StopAccepted ~> StopAllDone
====
